---- MODULE Spec2Model ----
(***************************************************************************)
(* Reset orchestration of the mlx_sx switch driver                         *)
(* (drivers/net/mlx_sx/reset.c): sx_reset and the functions it calls.      *)
(* One behaviour is one sx_reset call on one device; the call's arguments  *)
(* and the module parameters are drawn in Init.  Every blocking call of    *)
(* the code (a sleep, a hardware read, an event dispatch) is one step.     *)
(***************************************************************************)
EXTENDS Integers, Sequences, FiniteSets, TLC

(* ---- bounds of the model ---- *)
\* number of 1-tick sleeps a poll loop may take before its sleep overshoots
\* to the deadline (msleep sleeps at least the time asked for)
MaxPolls == 2

(* ---- program constants ---- *)
ENODEV == 19
ENOMEM == 12
ETIME == 62
EFAULT == 14
EINVAL == 22
RESET_TRIGGER_TIMEOUT == 10000
SX_RESET_TIMEOUT_JIFFIES == 2000
SX_SYSTEM_STATUS_REG_MASK == 255
SX_SYSTEM_STATUS_ENABLED == 94
SX_SW_RESET_TIMEOUT_MSECS == 5000
QUANTUM_RESET_MSECS == 15000
SPECTRUM_RESET_MSECS == 900000
GATE_POLL_MSECS == 100
PCI_COMMAND == 4
PCI_EXP_DEVCTL == 8
PCI_EXP_LNKCTL == 16
PCI_VENDOR_INVALID == 65535

(* ---- device families (dev->pdev->device) ---- *)
Quantums == {"QUANTUM", "QUANTUM2", "QUANTUM3"}
SlowSpectrums == {"SPECTRUM2", "SPECTRUM3", "SPECTRUM4"}
ModernFamilies == {"SPECTRUM", "SWITCH_IB", "SWITCH_IB2"} \cup SlowSpectrums \cup Quantums
Families == {"SWITCHX", "OTHER"} \cup ModernFamilies

(* ---- what the collaborators and the hardware can answer ---- *)
\* return values of sx_core_dispatch_event
DispatchRets == {0, -16}
\* return values of sx_ACCESS_REG_MRSR
TransportRets == {0, -5}
\* 32-bit words the status register can read as: ready, not ready, and the
\* same two low bytes under non-zero upper bits
StatusWords == {94, 0, 350, 256}
\* vendor-id words of the configuration space: all-ones (absent) or Mellanox
VendorWords == {65535, 5555}
\* error codes a post-reset subscriber may leave in the payload
OverrideVals == {0, -1}
\* offsets pci_find_capability may return (0: no PCI Express capability)
PcieCaps == {0, 72, 80, 96}

VARIABLES
    device,                    \* dev->pdev->device
    pdev,                      \* "null" (dev == NULL), "nopdev" (!dev->pdev), "present"
    perform_chip_reset,        \* argument of sx_reset
    reset_trigger,             \* module parameter
    debug_fw_trace_boot_flow,  \* module parameter
    dev_sw_rst_flow,           \* priv->dev_sw_rst_flow
    pc,                        \* position of the call
    err,                       \* err of sx_reset
    perr,                      \* err of perform_dev_sw_reset
    serr,                      \* err of sdk_sx_reset
    lerr,                      \* err of legacy_reset / legacy_reset_SwitchX
    event_data,                \* [alloc, post_reset_err]
    hca_header,                \* TRUE while the snapshot buffer is allocated
    is_pre_reset_event,
    vendor,                    \* vendor word of the running readback loop
    w,                         \* frame of __wait_for_system_ready
    dl,                        \* frame of __do_legacy_reset
    lp,                        \* clock of the running gate / readback loop
    si,                        \* i of __save_headers_data
    rs,                        \* frame of __restore_headers_data
    log,                       \* history: <<event, value>> in program order
    nMap,                      \* history: ioremap calls that succeeded
    mapped,                    \* windows mapped now
    nCfgRd,                    \* history: configuration-space reads
    nCfgWr,                    \* history: configuration-space writes
    post_in,                   \* history: payload err stored before the post dispatch
    overridden,                \* history: a subscriber wrote the payload
    retval,                    \* value returned by sx_reset (valid at "done")
    kmem,                      \* history: kzalloc/kmalloc and kfree calls of each buffer
    gss,                       \* frame of a get_system_status call
    hdr,                       \* contents of the snapshot buffer hca_header[0..63]
    cfgrd,                     \* history: word indices read by __save_headers_data
    cfgwr,                     \* history: writes of __restore_headers_data
    it                         \* frame of a call of the mlxsw_item accessors

args == <<device, pdev, perform_chip_reset, debug_fw_trace_boot_flow>>
snap == <<hdr, cfgrd, cfgwr>>
\* what no step of sx_reset outside save and restore assigns
cfg == <<args, gss, snap, it>>
errs == <<err, perr, serr, lerr>>
sess == <<event_data, hca_header, is_pre_reset_event, vendor>>
subs == <<w, dl, lp, si, rs>>
cnts == <<nMap, mapped, nCfgRd, nCfgWr>>
hist == <<post_in, overridden, retval, kmem>>
vars == <<cfg, reset_trigger, dev_sw_rst_flow, pc, errs, sess, subs, log, cnts, hist>>

Max(a, b) == IF a >= b THEN a ELSE b

\* no accessor of mlxsw_item.h is running
ItIdle == [pc |-> "idle"]

\* no get_system_status call is running
GIdle == [pc |-> "idle", out_ptr |-> FALSE, out0 |-> 0, out |-> 0, val |-> 0, ret |-> 0]

Logged(k, v) == Append(log, <<k, v>>)
Has(k) == \E i \in DOMAIN log : log[i][1] = k
HasEv(k, v) == \E i \in DOMAIN log : log[i] = <<k, v>>
Count(k) == Cardinality({i \in DOMAIN log : log[i][1] = k})
\* every k event precedes every j event
Before(k, j) == \A a, b \in DOMAIN log : (log[a][1] = k /\ log[b][1] = j) => a < b

\* the value of a time_waited that was never written
Unwritten == -1
\* frame of __wait_for_system_ready: budget and ptr are the arguments
\* wait_for_reset_msec and time_waited_msec != NULL, t the clock since start,
\* val the word last read, tw the caller's time_waited; n, rd and sl count
\* the loop rounds, the reads and the sleeps of this call
WIdle == [ph |-> "idle", budget |-> 0, t |-> 0, n |-> 0, ret |-> 0, ptr |-> FALSE, tw |-> 0,
          val |-> 0, rd |-> 0, sl |-> 0]
WStart(b, p) == [ph |-> "map", budget |-> b, t |-> 0, n |-> 0, ret |-> 0, ptr |-> p,
                 tw |-> Unwritten, val |-> 0, rd |-> 0, sl |-> 0]
DIdle == [ph |-> "idle", ret |-> 0]
DStart == [ph |-> "map", ret |-> 0]
LIdle == [ph |-> "idle", t |-> 0, n |-> 0]
LStart == [ph |-> "read", t |-> 0, n |-> 0]
RIdle == [ph |-> "idle", cap |-> 0, i |-> 0]

\* no buffer was allocated or freed yet
KNone == [ev_alloc |-> 0, ev_free |-> 0, hdr_alloc |-> 0, hdr_free |-> 0]

Init ==
    /\ device \in Families
    /\ pdev \in {"null", "nopdev", "present"}
    /\ perform_chip_reset \in {0, 1}
    /\ reset_trigger \in {0, 1}
    /\ debug_fw_trace_boot_flow \in {0, 1}
    /\ dev_sw_rst_flow = FALSE
    /\ pc = "sx_entry"
    /\ err = 0 /\ perr = 0 /\ serr = 0 /\ lerr = 0
    /\ event_data = [alloc |-> FALSE, post_reset_err |-> 0]
    /\ hca_header = FALSE
    /\ is_pre_reset_event = FALSE
    /\ vendor = PCI_VENDOR_INVALID
    /\ w = WIdle /\ dl = DIdle /\ lp = LIdle /\ si = 0 /\ rs = RIdle
    /\ log = <<>>
    /\ nMap = 0 /\ mapped = 0 /\ nCfgRd = 0 /\ nCfgWr = 0
    /\ post_in = 0 /\ overridden = FALSE /\ retval = 0
    /\ kmem = KNone
    /\ gss = GIdle
    /\ hdr = [i \in 0..63 |-> Unwritten] /\ cfgrd = <<>> /\ cfgwr = <<>>
    /\ it = ItIdle

(***************************************************************************)
(* __get_chip_reset_duration                                               *)
(***************************************************************************)
\* __get_chip_reset_duration with the default for every device id
__get_chip_reset_duration_flat(d) == SX_SW_RESET_TIMEOUT_MSECS

\* line 179-199 (a build without INCREASED_TIMEOUT, PD_BU and QUANTUM3_BU)
__get_chip_reset_duration(d) ==
    IF d \in Quantums THEN QUANTUM_RESET_MSECS
    ELSE IF d \in SlowSpectrums THEN SPECTRUM_RESET_MSECS
    ELSE SX_SW_RESET_TIMEOUT_MSECS

\* LegacyBudget without the doubling
LegacyBudget_single(d) == __get_chip_reset_duration(d)

\* line 496-500: wait_for_reset *= 2 (a u32: no duration of the table reaches
\* 2^31, so the product does not wrap)
LegacyBudget(d) == __get_chip_reset_duration(d) * 2

(***************************************************************************)
(* __wait_for_system_ready: the frame w belongs to the call site pc.       *)
(***************************************************************************)
WaitSites == {"sdk_wait1", "sdk_wait0", "sdk_wait2", "leg_wait1", "leg_wait2", "sx_nd_wait"}

\* the status word shows the ready sentinel
\* StatusReady comparing the whole word with the sentinel
StatusReady_word(val) == val = SX_SYSTEM_STATUS_ENABLED

\* line 159: SX_SYSTEM_STATUS_ENABLED == (val & SX_SYSTEM_STATUS_REG_MASK)
StatusReady(val) == (val % (SX_SYSTEM_STATUS_REG_MASK + 1)) = SX_SYSTEM_STATUS_ENABLED

\* ioremap of the status register; NULL is -ENOMEM
WaitMap ==
    /\ pc \in WaitSites /\ w.ph = "map"
    /\ \E ok \in BOOLEAN :
         IF ok
         THEN /\ w' = [w EXCEPT !.ph = "read"]
              /\ nMap' = nMap + 1 /\ mapped' = mapped + 1
              /\ log' = Logged("wait", w.budget)
         ELSE /\ w' = [w EXCEPT !.ph = "ret", !.ret = -ENOMEM]
              /\ UNCHANGED <<nMap, mapped>>
              /\ log' = Append(Logged("wait", w.budget), <<"wret", -ENOMEM>>)
    /\ UNCHANGED <<cfg, reset_trigger, dev_sw_rst_flow, pc, errs, sess, dl, lp, si, rs,
                   nCfgRd, nCfgWr, hist>>

\* ioread32be and the sentinel test; on a match iounmap and return 0
WaitRead ==
    /\ pc \in WaitSites /\ w.ph = "read"
    /\ \E val \in StatusWords :
         IF StatusReady(val)
         THEN /\ w' = [w EXCEPT !.ph = "ret", !.ret = 0, !.val = val, !.rd = w.rd + 1,
                                !.tw = IF w.ptr THEN w.t ELSE w.tw]
              /\ mapped' = mapped - 1
              /\ log' = IF w.budget = 0
                        THEN Append(Logged("sread", 1), <<"wret", 0>>)
                        ELSE Logged("wret", 0)
         ELSE /\ w' = [w EXCEPT !.ph = "sleep", !.val = val, !.rd = w.rd + 1]
              /\ log' = IF w.budget = 0 THEN Logged("sread", 0) ELSE log
              /\ UNCHANGED mapped
    /\ UNCHANGED <<cfg, reset_trigger, dev_sw_rst_flow, pc, errs, sess, dl, lp, si, rs,
                   nMap, nCfgRd, nCfgWr, hist>>

\* WaitSleep whose msleep(1) never returns
WaitSleep_hang ==
    /\ pc \in WaitSites /\ w.ph = "sleep"
    /\ UNCHANGED vars

\* WaitSleep as a loop that tests the deadline only from its second round
WaitSleep_again ==
    /\ pc \in WaitSites /\ w.ph = "sleep"
    /\ \E t2 \in {w.t + 1, Max(w.budget, w.t + 1)} :
         /\ (t2 = w.t + 1 /\ t2 < w.budget) => w.n < MaxPolls
         /\ IF t2 < w.budget \/ w.n = 0
            THEN /\ w' = [w EXCEPT !.ph = "read", !.t = t2, !.n = w.n + 1, !.sl = w.sl + 1]
                 /\ UNCHANGED <<mapped, log>>
            ELSE /\ w' = [w EXCEPT !.ph = "ret", !.t = t2, !.ret = -ETIME, !.sl = w.sl + 1]
                 /\ mapped' = mapped - 1
                 /\ log' = Logged("wret", -ETIME)
    /\ UNCHANGED <<cfg, reset_trigger, dev_sw_rst_flow, pc, errs, sess, dl, lp, si, rs,
                   nMap, nCfgRd, nCfgWr, hist>>

\* msleep(1) and the loop test time_before(jiffies, end); at the deadline
\* iounmap and return -ETIME
WaitSleep ==
    /\ pc \in WaitSites /\ w.ph = "sleep"
    /\ \E t2 \in {w.t + 1, Max(w.budget, w.t + 1)} :
         /\ (t2 = w.t + 1 /\ t2 < w.budget) => w.n < MaxPolls
         /\ IF t2 < w.budget
            THEN /\ w' = [w EXCEPT !.ph = "read", !.t = t2, !.n = w.n + 1, !.sl = w.sl + 1]
                 /\ UNCHANGED <<mapped, log>>
            ELSE /\ w' = [w EXCEPT !.ph = "ret", !.t = t2, !.ret = -ETIME, !.sl = w.sl + 1]
                 /\ mapped' = mapped - 1
                 /\ log' = Logged("wret", -ETIME)
    /\ UNCHANGED <<cfg, reset_trigger, dev_sw_rst_flow, pc, errs, sess, dl, lp, si, rs,
                   nMap, nCfgRd, nCfgWr, hist>>

(***************************************************************************)
(* __do_legacy_reset: the frame dl belongs to the call site pc.            *)
(***************************************************************************)
DlSites == {"leg_do", "lsx_do"}

\* ioremap of the reset register; NULL is -ENOMEM, with no write and no sleep
DlMap ==
    /\ pc \in DlSites /\ dl.ph = "map"
    /\ \E ok \in BOOLEAN :
         IF ok
         THEN /\ dl' = [dl EXCEPT !.ph = "write"]
              /\ nMap' = nMap + 1 /\ mapped' = mapped + 1
         ELSE /\ dl' = [dl EXCEPT !.ph = "ret", !.ret = -ENOMEM]
              /\ UNCHANGED <<nMap, mapped>>
    /\ UNCHANGED <<cfg, reset_trigger, dev_sw_rst_flow, pc, errs, sess, w, lp, si, rs,
                   log, nCfgRd, nCfgWr, hist>>

\* DlWrite returning right after the write, with no grace period
DlWrite_nograce ==
    /\ pc \in DlSites /\ dl.ph = "write"
    /\ dl' = [dl EXCEPT !.ph = "ret", !.ret = 0]
    /\ mapped' = mapped - 1
    /\ log' = Logged("lwrite", 0)
    /\ UNCHANGED <<cfg, reset_trigger, dev_sw_rst_flow, pc, errs, sess, w, lp, si, rs,
                   nMap, nCfgRd, nCfgWr, hist>>

\* writel(SX_RESET_VALUE, reset); iounmap(reset)
DlWrite ==
    /\ pc \in DlSites /\ dl.ph = "write"
    /\ dl' = [dl EXCEPT !.ph = "sleep"]
    /\ mapped' = mapped - 1
    /\ log' = Logged("lwrite", 0)
    /\ UNCHANGED <<cfg, reset_trigger, dev_sw_rst_flow, pc, errs, sess, w, lp, si, rs,
                   nMap, nCfgRd, nCfgWr, hist>>

\* msleep(3000)
DlSleep ==
    /\ pc \in DlSites /\ dl.ph = "sleep"
    /\ dl' = [dl EXCEPT !.ph = "ret", !.ret = 0]
    /\ log' = Logged("grace", 0)
    /\ UNCHANGED <<cfg, reset_trigger, dev_sw_rst_flow, pc, errs, sess, w, lp, si, rs,
                   cnts, hist>>

(***************************************************************************)
(* The vendor-id readback loop (legacy_reset_SwitchX and sx_reset): the    *)
(* clock lp belongs to the call site pc.                                   *)
(***************************************************************************)
VendorSites == {"lsx_vendor", "sx_vendor"}
VendorNext(site) == IF site = "lsx_vendor" THEN "lsx_chk" ELSE "sx_chk"

\* pci_read_config_word(PCI_VENDOR_ID); a failed read stores all-ones. When
\* the loop is left its clock and its count of sleeps stay in lp
VendorRead ==
    /\ pc \in VendorSites /\ lp.ph = "read"
    /\ \E ok \in BOOLEAN, val \in VendorWords :
         LET v == IF ok THEN val ELSE PCI_VENDOR_INVALID IN
         /\ vendor' = v
         /\ IF ok /\ v # PCI_VENDOR_INVALID
            THEN /\ pc' = VendorNext(pc) /\ lp' = [lp EXCEPT !.ph = "idle"]
            ELSE /\ pc' = pc /\ lp' = [lp EXCEPT !.ph = "sleep"]
    /\ nCfgRd' = nCfgRd + 1
    /\ UNCHANGED <<cfg, reset_trigger, dev_sw_rst_flow, errs, event_data, hca_header,
                   is_pre_reset_event, w, dl, si, rs, log, nMap, mapped, nCfgWr, hist>>

\* msleep(1) and the loop test time_before(jiffies, end)
VendorSleep ==
    /\ pc \in VendorSites /\ lp.ph = "sleep"
    /\ \E t2 \in {lp.t + 1, Max(SX_RESET_TIMEOUT_JIFFIES, lp.t + 1)} :
         /\ (t2 < SX_RESET_TIMEOUT_JIFFIES) => lp.n < MaxPolls
         /\ IF t2 < SX_RESET_TIMEOUT_JIFFIES
            THEN /\ lp' = [ph |-> "read", t |-> t2, n |-> lp.n + 1] /\ pc' = pc
            ELSE /\ lp' = [ph |-> "idle", t |-> t2, n |-> lp.n + 1] /\ pc' = VendorNext(pc)
    /\ UNCHANGED <<cfg, reset_trigger, dev_sw_rst_flow, errs, sess, w, dl, si, rs,
                   log, cnts, hist>>

(***************************************************************************)
(* sdk_sx_reset (register-protocol path)                                   *)
(***************************************************************************)
\* line 220-224: result of the wait before the reset
SdkAfterWait1 ==
    /\ pc = "sdk_wait1" /\ w.ph = "ret"
    /\ serr' = w.ret
    /\ pc' = IF w.ret # 0 THEN "sdk_out" ELSE "sdk_setflag"
    /\ w' = WIdle
    /\ UNCHANGED <<cfg, reset_trigger, dev_sw_rst_flow, err, perr, lerr, sess, dl, lp, si, rs,
                   log, cnts, hist>>

\* line 229
SdkSetFlag ==
    /\ pc = "sdk_setflag"
    /\ dev_sw_rst_flow' = TRUE
    /\ pc' = "sdk_mrsr"
    /\ UNCHANGED <<cfg, reset_trigger, errs, sess, subs, log, cnts, hist>>

\* line 230-234: reset_dev_by_mrsr_reg, i.e. sx_ACCESS_REG_MRSR with
\* SXD_MRSR_CMD_SW_RESET
SdkMrsr ==
    /\ pc = "sdk_mrsr"
    /\ \E r \in TransportRets :
         /\ serr' = r
         /\ log' = Logged("mrsr", r)
         /\ IF r # 0
            THEN pc' = "sdk_out" /\ w' = w
            ELSE pc' = "sdk_wait0" /\ w' = WStart(0, TRUE)
    /\ UNCHANGED <<cfg, reset_trigger, dev_sw_rst_flow, err, perr, lerr, sess, dl, lp, si, rs,
                   cnts, hist>>

\* SdkImmErr with the -EFAULT conversion left out
SdkImmErr_passthrough(ret) == ret

\* SdkImmErr reporting -EFAULT for a status that read ready only
SdkImmErr_readyonly(ret) == IF ret = 0 THEN -EFAULT ELSE ret

\* line 238-245: anything but -ETIME from the zero-budget read is -EFAULT
SdkImmErr(ret) == IF ret # -ETIME THEN -EFAULT ELSE ret

\* line 237-248
SdkAfterWait0 ==
    /\ pc = "sdk_wait0" /\ w.ph = "ret"
    /\ serr' = SdkImmErr(w.ret)
    /\ log' = Logged("imm", w.ret)
    /\ IF w.ret # -ETIME
       THEN pc' = "sdk_out" /\ w' = WIdle
       ELSE pc' = "sdk_wait2" /\ w' = WStart(__get_chip_reset_duration(device), TRUE)
    /\ UNCHANGED <<cfg, reset_trigger, dev_sw_rst_flow, err, perr, lerr, sess, dl, lp, si, rs,
                   cnts, hist>>

\* line 248-252
SdkAfterWait2 ==
    /\ pc = "sdk_wait2" /\ w.ph = "ret"
    /\ serr' = w.ret
    /\ pc' = "sdk_out"
    /\ w' = WIdle
    /\ UNCHANGED <<cfg, reset_trigger, dev_sw_rst_flow, err, perr, lerr, sess, dl, lp, si, rs,
                   log, cnts, hist>>

\* SdkOut returning without clearing the flag
SdkOut_keepflag ==
    /\ pc = "sdk_out"
    /\ perr' = serr
    /\ log' = Logged("sdk_ret", serr)
    /\ pc' = "perf_sdk_ret"
    /\ UNCHANGED <<cfg, reset_trigger, dev_sw_rst_flow, err, serr, lerr, sess, subs, cnts, hist>>

\* line 256-258: out: the flag is cleared and err returned to
\* perform_dev_sw_reset (line 78)
SdkOut ==
    /\ pc = "sdk_out"
    /\ dev_sw_rst_flow' = FALSE
    /\ perr' = serr
    /\ log' = Logged("sdk_ret", serr)
    /\ pc' = "perf_sdk_ret"
    /\ UNCHANGED <<cfg, reset_trigger, err, serr, lerr, sess, subs, cnts, hist>>

(***************************************************************************)
(* legacy_reset (fallback of the modern families)                          *)
(***************************************************************************)
\* line 490-504: dev->pdev is present here (sx_reset checked it)
LegEntry ==
    /\ pc = "leg_entry"
    /\ pc' = "leg_wait1"
    /\ w' = WStart(LegacyBudget(device), TRUE)
    /\ log' = Logged("legacy", 0)
    /\ UNCHANGED <<cfg, reset_trigger, dev_sw_rst_flow, errs, sess, dl, lp, si, rs, cnts, hist>>

\* LegAfterWait1 going on to the trigger whatever the wait returned
LegAfterWait1_blind ==
    /\ pc = "leg_wait1" /\ w.ph = "ret"
    /\ lerr' = w.ret
    /\ pc' = "leg_setflag"
    /\ w' = WIdle
    /\ UNCHANGED <<cfg, reset_trigger, dev_sw_rst_flow, err, perr, serr, sess, dl, lp, si, rs,
                   log, cnts, hist>>

\* line 504-508
LegAfterWait1 ==
    /\ pc = "leg_wait1" /\ w.ph = "ret"
    /\ lerr' = w.ret
    /\ pc' = IF w.ret # 0 THEN "leg_out" ELSE "leg_setflag"
    /\ w' = WIdle
    /\ UNCHANGED <<cfg, reset_trigger, dev_sw_rst_flow, err, perr, serr, sess, dl, lp, si, rs,
                   log, cnts, hist>>

\* line 512-514
LegSetFlag ==
    /\ pc = "leg_setflag"
    /\ dev_sw_rst_flow' = TRUE
    /\ pc' = "leg_do"
    /\ dl' = DStart
    /\ UNCHANGED <<cfg, reset_trigger, errs, sess, w, lp, si, rs, log, cnts, hist>>

\* line 514-521
LegAfterDo ==
    /\ pc = "leg_do" /\ dl.ph = "ret"
    /\ lerr' = dl.ret
    /\ dl' = DIdle
    /\ IF dl.ret # 0
       THEN pc' = "leg_out" /\ w' = w
       ELSE pc' = "leg_wait2" /\ w' = WStart(LegacyBudget(device), TRUE)
    /\ UNCHANGED <<cfg, reset_trigger, dev_sw_rst_flow, err, perr, serr, sess, lp, si, rs,
                   log, cnts, hist>>

\* line 521-525
LegAfterWait2 ==
    /\ pc = "leg_wait2" /\ w.ph = "ret"
    /\ lerr' = w.ret
    /\ pc' = "leg_out"
    /\ w' = WIdle
    /\ UNCHANGED <<cfg, reset_trigger, dev_sw_rst_flow, err, perr, serr, sess, dl, lp, si, rs,
                   log, cnts, hist>>

\* LegOut with the fallback's result dropped: perform_dev_sw_reset keeps the
\* error of sdk_sx_reset
LegOut_dropped ==
    /\ pc = "leg_out"
    /\ dev_sw_rst_flow' = FALSE
    /\ perr' = perr
    /\ log' = Logged("legacy_ret", lerr)
    /\ pc' = "perf_out"
    /\ UNCHANGED <<cfg, reset_trigger, err, serr, lerr, sess, subs, cnts, hist>>

\* line 529-531: out: the flag is cleared and err returned to
\* perform_dev_sw_reset (line 81)
LegOut ==
    /\ pc = "leg_out"
    /\ dev_sw_rst_flow' = FALSE
    /\ perr' = lerr
    /\ log' = Logged("legacy_ret", lerr)
    /\ pc' = "perf_out"
    /\ UNCHANGED <<cfg, reset_trigger, err, serr, lerr, sess, subs, cnts, hist>>

(***************************************************************************)
(* legacy_reset_SwitchX                                                    *)
(***************************************************************************)
\* line 449-455
LsxEntry ==
    /\ pc = "lsx_entry"
    /\ pc' = "lsx_do"
    /\ dl' = DStart
    /\ log' = Logged("lsx", 0)
    /\ UNCHANGED <<cfg, reset_trigger, dev_sw_rst_flow, errs, sess, w, lp, si, rs, cnts, hist>>

\* line 455-462
LsxAfterDo ==
    /\ pc = "lsx_do" /\ dl.ph = "ret"
    /\ lerr' = dl.ret
    /\ dl' = DIdle
    /\ IF dl.ret # 0
       THEN pc' = "lsx_out" /\ UNCHANGED <<lp, vendor>>
       ELSE pc' = "lsx_vendor" /\ lp' = LStart /\ vendor' = PCI_VENDOR_INVALID
    /\ UNCHANGED <<cfg, reset_trigger, dev_sw_rst_flow, err, perr, serr, event_data,
                   hca_header, is_pre_reset_event, w, si, rs, log, cnts, hist>>

\* line 471-475
LsxCheck ==
    /\ pc = "lsx_chk"
    /\ lerr' = IF vendor = PCI_VENDOR_INVALID THEN -ENODEV ELSE lerr
    /\ log' = Logged("vendor", IF vendor = PCI_VENDOR_INVALID THEN 0 ELSE 1)
    /\ pc' = "lsx_out"
    /\ UNCHANGED <<cfg, reset_trigger, dev_sw_rst_flow, err, perr, serr, sess, subs, cnts, hist>>

\* line 477-478, returning to perform_dev_sw_reset (line 60)
LsxOut ==
    /\ pc = "lsx_out"
    /\ perr' = lerr
    /\ log' = Logged("lsx_ret", lerr)
    /\ pc' = "perf_out"
    /\ UNCHANGED <<cfg, reset_trigger, dev_sw_rst_flow, err, serr, lerr, sess, subs, cnts, hist>>

(***************************************************************************)
(* perform_dev_sw_reset                                                    *)
(***************************************************************************)
\* PerformSwitch sending SwitchX down the register-protocol path as well
PerformSwitch_nofamily ==
    /\ pc = "perform"
    /\ IF device \in ModernFamilies \cup {"SWITCHX"}
       THEN /\ pc' = "sdk_wait1"
            /\ w' = WStart(__get_chip_reset_duration(device), TRUE)
            /\ log' = Logged("sdk", 0)
            /\ perr' = perr
       ELSE pc' = "perf_out" /\ perr' = -ENODEV /\ UNCHANGED <<w, log>>
    /\ UNCHANGED <<cfg, reset_trigger, dev_sw_rst_flow, err, serr, lerr, sess, dl, lp, si, rs,
                   cnts, hist>>

\* PerformSwitch with a default case that reports success
PerformSwitch_default_ok ==
    /\ pc = "perform"
    /\ IF device = "SWITCHX"
       THEN pc' = "lsx_entry" /\ UNCHANGED <<perr, w, log>>
       ELSE IF device \in ModernFamilies
       THEN /\ pc' = "sdk_wait1"
            /\ w' = WStart(__get_chip_reset_duration(device), TRUE)
            /\ log' = Logged("sdk", 0)
            /\ perr' = perr
       ELSE pc' = "perf_out" /\ perr' = 0 /\ UNCHANGED <<w, log>>
    /\ UNCHANGED <<cfg, reset_trigger, dev_sw_rst_flow, err, serr, lerr, sess, dl, lp, si, rs,
                   cnts, hist>>

\* line 57-96: the switch on the device id
PerformSwitch ==
    /\ pc = "perform"
    /\ IF device = "SWITCHX"
       THEN pc' = "lsx_entry" /\ UNCHANGED <<perr, w, log>>
       ELSE IF device \in ModernFamilies
       THEN /\ pc' = "sdk_wait1"
            /\ w' = WStart(__get_chip_reset_duration(device), TRUE)
            /\ log' = Logged("sdk", 0)
            /\ perr' = perr
       ELSE pc' = "perf_out" /\ perr' = -ENODEV /\ UNCHANGED <<w, log>>
    /\ UNCHANGED <<cfg, reset_trigger, dev_sw_rst_flow, err, serr, lerr, sess, dl, lp, si, rs,
                   cnts, hist>>

\* FallbackTarget running the legacy executor whatever sdk_sx_reset returned
FallbackTarget_always(e) == "leg_entry"

\* FallbackTarget with the fallback left out
FallbackTarget_never(e) == "perf_out"

\* line 79-81: the executor perform_dev_sw_reset runs after sdk_sx_reset
\* returned e
FallbackTarget(e) ==
    IF e # 0 THEN "leg_entry" ELSE "perf_out"

PerformAfterSdk ==
    /\ pc = "perf_sdk_ret"
    /\ pc' = FallbackTarget(perr)
    /\ UNCHANGED <<cfg, reset_trigger, dev_sw_rst_flow, errs, sess, subs, log, cnts, hist>>

\* PerformOut reporting the register-protocol error after a fallback
PerformOut_primary ==
    /\ pc = "perf_out"
    /\ err' = IF serr # 0 THEN serr ELSE perr
    /\ log' = Logged("perf_ret", perr)
    /\ IF perr # 0
       THEN pc' = "sx_out" /\ UNCHANGED <<lp, vendor>>
       ELSE pc' = "sx_vendor" /\ lp' = LStart /\ vendor' = PCI_VENDOR_INVALID
    /\ UNCHANGED <<cfg, reset_trigger, dev_sw_rst_flow, perr, serr, lerr, event_data,
                   hca_header, is_pre_reset_event, w, dl, si, rs, cnts, hist>>

\* line 98-99 and sx_reset line 605-611 (vendor is 0xffff from line 538)
PerformOut ==
    /\ pc = "perf_out"
    /\ err' = perr
    /\ log' = Logged("perf_ret", perr)
    /\ IF perr # 0
       THEN pc' = "sx_out" /\ UNCHANGED <<lp, vendor>>
       ELSE pc' = "sx_vendor" /\ lp' = LStart /\ vendor' = PCI_VENDOR_INVALID
    /\ UNCHANGED <<cfg, reset_trigger, dev_sw_rst_flow, perr, serr, lerr, event_data,
                   hca_header, is_pre_reset_event, w, dl, si, rs, cnts, hist>>

(***************************************************************************)
(* __save_headers_data and __restore_headers_data                          *)
(***************************************************************************)
\* line 283-292: one iteration of the loop; indices 22 and 23 are skipped, a
\* failed read aborts with -ENODEV (sx_reset line 566-570)
\* the configuration dword of index i as the device holds it before the
\* reset: both halves tell the index
CfgWord(i) == (i + 1) * 65537

\* line 276: memset(hca_header_p, 0, SX_HCA_HEADERS_SIZE), made before the
\* first read (i = 0)
Cleared(i) == IF i = 0 THEN [j \in 0..63 |-> 0] ELSE hdr

\* SaveStep going on to the next word after a failed read
SaveStep_tolerant ==
    /\ pc = "sx_save" /\ si < 64
    /\ IF si \in {22, 23}
       THEN /\ si' = si + 1
            /\ UNCHANGED <<nCfgRd, hdr, cfgrd>>
       ELSE \E ok \in BOOLEAN :
              /\ nCfgRd' = nCfgRd + 1
              /\ cfgrd' = Append(cfgrd, si)
              /\ hdr' = IF ok THEN [Cleared(si) EXCEPT ![si] = CfgWord(si)] ELSE Cleared(si)
              /\ si' = si + 1
    /\ UNCHANGED <<args, gss, it, cfgwr, reset_trigger, dev_sw_rst_flow, pc, errs, sess,
                   w, dl, lp, rs, nMap, mapped, nCfgWr, log, hist>>

SaveStep ==
    /\ pc = "sx_save" /\ si < 64
    /\ IF si \in {22, 23}
       THEN /\ si' = si + 1
            /\ UNCHANGED <<pc, err, nCfgRd, log, hdr, cfgrd>>
       ELSE \E ok \in BOOLEAN :
              /\ nCfgRd' = nCfgRd + 1
              /\ cfgrd' = Append(cfgrd, si)
              /\ hdr' = IF ok THEN [Cleared(si) EXCEPT ![si] = CfgWord(si)] ELSE Cleared(si)
              /\ IF ok
                 THEN si' = si + 1 /\ UNCHANGED <<pc, err, log>>
                 ELSE /\ si' = si /\ err' = -ENODEV /\ pc' = "sx_out"
                      /\ log' = Logged("save", -ENODEV)
    /\ UNCHANGED <<args, gss, it, cfgwr, reset_trigger, dev_sw_rst_flow, perr, serr, lerr, sess,
                   w, dl, lp, rs, nMap, mapped, nCfgWr, hist>>

\* line 294-295 and sx_reset line 566-574
SaveDone ==
    /\ pc = "sx_save" /\ si = 64
    /\ err' = 0
    /\ log' = Logged("save", 0)
    /\ pc' = "sx_gate"
    /\ UNCHANGED <<cfg, reset_trigger, dev_sw_rst_flow, perr, serr, lerr, sess, subs, cnts, hist>>

\* RestoreNext taking the byte offset PCI_COMMAND for the index of its slot
RestoreNext_byteoffset(ph, i) ==
    IF ph = "devctl" THEN [ph |-> "linkctl", i |-> 0]
    ELSE IF ph = "linkctl" THEN [ph |-> "words", i |-> 0]
    ELSE IF ph = "words" /\ i < 15 THEN [ph |-> "words", i |-> i + 1]
    ELSE IF ph = "words" THEN [ph |-> "cmd", i |-> PCI_COMMAND]
    ELSE [ph |-> "ret", i |-> 0]

\* the step of restore after step ph (word index i) succeeded
RestoreNext(ph, i) ==
    IF ph = "devctl" THEN [ph |-> "linkctl", i |-> 0]
    ELSE IF ph = "linkctl" THEN [ph |-> "words", i |-> 0]
    ELSE IF ph = "words" /\ i < 15 THEN [ph |-> "words", i |-> i + 1]
    ELSE IF ph = "words" THEN [ph |-> "cmd", i |-> PCI_COMMAND \div 4]
    ELSE [ph |-> "ret", i |-> 0]

\* the buffer slot a write of restore takes its value from
RestoreSlot(ph, i, cap) ==
    IF ph = "devctl" THEN (cap + PCI_EXP_DEVCTL) \div 4
    ELSE IF ph = "linkctl" THEN (cap + PCI_EXP_LNKCTL) \div 4
    ELSE i
\* the configuration-space byte offset it writes
RestoreOff(ph, i, cap) ==
    IF ph = "devctl" THEN cap + PCI_EXP_DEVCTL
    ELSE IF ph = "linkctl" THEN cap + PCI_EXP_LNKCTL
    ELSE IF ph = "words" THEN i * 4
    ELSE PCI_COMMAND
\* line 320-352: one write: the two capability words are u16 copies of
\* their slot written by pci_write_config_word, the others whole dwords
RestoreWrite(ph, i, cap, ok) ==
    [ph |-> ph, off |-> RestoreOff(ph, i, cap), slot |-> RestoreSlot(ph, i, cap),
     val |-> IF ph \in {"devctl", "linkctl"}
             THEN hdr[RestoreSlot(ph, i, cap)] % 65536
             ELSE hdr[RestoreSlot(ph, i, cap)],
     ok |-> ok]

\* RestoreStep writing PCI_COMMAND in its place in the 16-word pass as well
RestoreStep_noskip ==
    /\ pc = "sx_restore" /\ rs.ph \in {"devctl", "linkctl", "words", "cmd"}
    /\ \E ok \in BOOLEAN :
         /\ nCfgWr' = nCfgWr + 1
         /\ cfgwr' = Append(cfgwr, RestoreWrite(rs.ph, rs.i, rs.cap, ok))
         /\ log' = Logged(rs.ph, IF ok THEN rs.i ELSE -ENODEV)
         /\ IF ok
            THEN /\ rs' = [rs EXCEPT !.ph = RestoreNext(rs.ph, rs.i).ph,
                                     !.i = RestoreNext(rs.ph, rs.i).i]
                 /\ err' = 0
            ELSE /\ rs' = [rs EXCEPT !.ph = "ret"]
                 /\ err' = -ENODEV
    /\ UNCHANGED <<args, gss, it, hdr, cfgrd, reset_trigger, dev_sw_rst_flow, pc, perr, serr, lerr,
                   sess, w, dl, lp, si, nMap, mapped, nCfgRd, hist>>

\* RestoreStep noting a failed write and going on with the next one
RestoreStep_continue ==
    /\ pc = "sx_restore" /\ rs.ph \in {"devctl", "linkctl", "words", "cmd"}
    /\ IF rs.ph = "words" /\ rs.i * 4 = PCI_COMMAND
       THEN /\ rs' = [rs EXCEPT !.i = rs.i + 1]
            /\ UNCHANGED <<err, nCfgWr, log, cfgwr>>
       ELSE \E ok \in BOOLEAN :
              /\ nCfgWr' = nCfgWr + 1
              /\ cfgwr' = Append(cfgwr, RestoreWrite(rs.ph, rs.i, rs.cap, ok))
              /\ log' = Logged(rs.ph, IF ok THEN rs.i ELSE -ENODEV)
              /\ rs' = [rs EXCEPT !.ph = RestoreNext(rs.ph, rs.i).ph,
                                  !.i = RestoreNext(rs.ph, rs.i).i]
              /\ err' = IF ok THEN err ELSE -ENODEV
    /\ UNCHANGED <<args, gss, it, hdr, cfgrd, reset_trigger, dev_sw_rst_flow, pc, perr, serr, lerr,
                   sess, w, dl, lp, si, nMap, mapped, nCfgRd, hist>>

\* RestoreStep with the result of the last write, of PCI_COMMAND, unchecked
RestoreStep_cmd_unchecked ==
    /\ pc = "sx_restore" /\ rs.ph \in {"devctl", "linkctl", "words", "cmd"}
    /\ IF rs.ph = "words" /\ rs.i * 4 = PCI_COMMAND
       THEN /\ rs' = [rs EXCEPT !.i = rs.i + 1]
            /\ UNCHANGED <<err, nCfgWr, log, cfgwr>>
       ELSE \E ok \in BOOLEAN :
              /\ nCfgWr' = nCfgWr + 1
              /\ cfgwr' = Append(cfgwr, RestoreWrite(rs.ph, rs.i, rs.cap, ok))
              /\ log' = Logged(rs.ph, IF ok THEN rs.i ELSE -ENODEV)
              /\ IF ok \/ rs.ph = "cmd"
                 THEN /\ rs' = [rs EXCEPT !.ph = RestoreNext(rs.ph, rs.i).ph,
                                          !.i = RestoreNext(rs.ph, rs.i).i]
                      /\ err' = 0
                 ELSE /\ rs' = [rs EXCEPT !.ph = "ret"]
                      /\ err' = -ENODEV
    /\ UNCHANGED <<args, gss, it, hdr, cfgrd, reset_trigger, dev_sw_rst_flow, pc, perr, serr, lerr,
                   sess, w, dl, lp, si, nMap, mapped, nCfgRd, hist>>

\* line 318-355: one configuration-space write of restore (the two capability
\* words, the 16 header words but PCI_COMMAND, then PCI_COMMAND); a failed
\* write returns -ENODEV at once
RestoreStep ==
    /\ pc = "sx_restore" /\ rs.ph \in {"devctl", "linkctl", "words", "cmd"}
    /\ IF rs.ph = "words" /\ rs.i * 4 = PCI_COMMAND
       THEN /\ rs' = [rs EXCEPT !.i = rs.i + 1]
            /\ UNCHANGED <<err, nCfgWr, log, cfgwr>>
       ELSE \E ok \in BOOLEAN :
              /\ nCfgWr' = nCfgWr + 1
              /\ cfgwr' = Append(cfgwr, RestoreWrite(rs.ph, rs.i, rs.cap, ok))
              /\ log' = Logged(rs.ph, IF ok THEN rs.i ELSE -ENODEV)
              /\ IF ok
                 THEN /\ rs' = [rs EXCEPT !.ph = RestoreNext(rs.ph, rs.i).ph,
                                          !.i = RestoreNext(rs.ph, rs.i).i]
                      /\ err' = 0
                 ELSE /\ rs' = [rs EXCEPT !.ph = "ret"]
                      /\ err' = -ENODEV
    /\ UNCHANGED <<args, gss, it, hdr, cfgrd, reset_trigger, dev_sw_rst_flow, pc, perr, serr, lerr,
                   sess, w, dl, lp, si, nMap, mapped, nCfgRd, hist>>

\* line 357-358 and sx_reset line 642-649
RestoreDone ==
    /\ pc = "sx_restore" /\ rs.ph = "ret"
    /\ rs' = RIdle
    /\ log' = Logged("restore", err)
    /\ pc' = "sx_out"
    /\ UNCHANGED <<cfg, reset_trigger, dev_sw_rst_flow, errs, sess, w, dl, lp, si, cnts, hist>>

(***************************************************************************)
(* sx_reset                                                                *)
(***************************************************************************)
\* SxEntry without the test of dev and dev->pdev
SxEntry_unchecked ==
    /\ pc = "sx_entry"
    /\ err' = err /\ pc' = "sx_kzalloc"
    /\ UNCHANGED <<cfg, reset_trigger, dev_sw_rst_flow, perr, serr, lerr, sess, subs, log, cnts,
                   hist>>

\* line 544-548
SxEntry ==
    /\ pc = "sx_entry"
    /\ IF pdev # "present"
       THEN err' = -ENODEV /\ pc' = "sx_out"
       ELSE err' = err /\ pc' = "sx_kzalloc"
    /\ UNCHANGED <<cfg, reset_trigger, dev_sw_rst_flow, perr, serr, lerr, sess, subs, log, cnts,
                   hist>>

\* SxAllocEvent taking the snapshot only when a chip reset is asked for
SxAllocEvent_destructive_save ==
    /\ pc = "sx_kzalloc"
    /\ \E ok \in BOOLEAN :
         IF ok
         THEN /\ event_data' = [alloc |-> TRUE, post_reset_err |-> 0]
              /\ kmem' = [kmem EXCEPT !.ev_alloc = kmem.ev_alloc + 1]
              /\ err' = err
              /\ pc' = IF device = "SWITCHX" /\ perform_chip_reset # 0
                       THEN "sx_kmalloc" ELSE "sx_gate"
         ELSE /\ event_data' = event_data
              /\ kmem' = kmem
              /\ err' = -ENOMEM
              /\ pc' = "sx_out"
    /\ UNCHANGED <<cfg, reset_trigger, dev_sw_rst_flow, perr, serr, lerr, hca_header,
                   is_pre_reset_event, vendor, subs, log, cnts, post_in, overridden, retval>>

\* line 550-557
SxAllocEvent ==
    /\ pc = "sx_kzalloc"
    /\ \E ok \in BOOLEAN :
         IF ok
         THEN /\ event_data' = [alloc |-> TRUE, post_reset_err |-> 0]
              /\ kmem' = [kmem EXCEPT !.ev_alloc = kmem.ev_alloc + 1]
              /\ err' = err
              /\ pc' = IF device = "SWITCHX" THEN "sx_kmalloc" ELSE "sx_gate"
         ELSE /\ event_data' = event_data
              /\ kmem' = kmem
              /\ err' = -ENOMEM
              /\ pc' = "sx_out"
    /\ UNCHANGED <<cfg, reset_trigger, dev_sw_rst_flow, perr, serr, lerr, hca_header,
                   is_pre_reset_event, vendor, subs, log, cnts, post_in, overridden, retval>>

\* line 558-566
SxAllocHeader ==
    /\ pc = "sx_kmalloc"
    /\ \E ok \in BOOLEAN :
         IF ok
         THEN /\ hca_header' = TRUE /\ err' = err /\ pc' = "sx_save" /\ si' = 0
              /\ kmem' = [kmem EXCEPT !.hdr_alloc = kmem.hdr_alloc + 1]
         ELSE /\ hca_header' = hca_header /\ err' = -ENOMEM /\ pc' = "sx_out" /\ si' = si
              /\ kmem' = kmem
    /\ UNCHANGED <<cfg, reset_trigger, dev_sw_rst_flow, perr, serr, lerr, event_data,
                   is_pre_reset_event, vendor, w, dl, lp, rs, log, cnts, post_in, overridden,
                   retval>>

\* SxGate passing the gate at once when no chip reset is asked for
SxGate_destructive_only ==
    /\ pc = "sx_gate"
    /\ IF reset_trigger # 0 \/ perform_chip_reset = 0
       THEN pc' = "sx_phase" /\ lp' = lp
       ELSE pc' = "sx_gate_poll" /\ lp' = [ph |-> "loop", t |-> 0, n |-> 0]
    /\ log' = Logged("gate", reset_trigger)
    /\ UNCHANGED <<cfg, reset_trigger, dev_sw_rst_flow, errs, sess, w, dl, si, rs, cnts, hist>>

\* line 574-581: sx_cmd_use_polling and the first test of reset_trigger
SxGate ==
    /\ pc = "sx_gate"
    /\ IF reset_trigger # 0
       THEN pc' = "sx_phase" /\ lp' = lp
       ELSE pc' = "sx_gate_poll" /\ lp' = [ph |-> "loop", t |-> 0, n |-> 0]
    /\ log' = Logged("gate", reset_trigger)
    /\ UNCHANGED <<cfg, reset_trigger, dev_sw_rst_flow, errs, sess, w, dl, si, rs, cnts, hist>>

\* line 583-585: while (!reset_trigger && time_before(jiffies, end)) msleep(100)
SxGateSleep ==
    /\ pc = "sx_gate_poll"
    /\ reset_trigger = 0 /\ lp.t < RESET_TRIGGER_TIMEOUT
    /\ \E t2 \in {lp.t + GATE_POLL_MSECS, Max(RESET_TRIGGER_TIMEOUT, lp.t + GATE_POLL_MSECS)} :
         /\ (t2 < RESET_TRIGGER_TIMEOUT) => lp.n < MaxPolls
         /\ lp' = [lp EXCEPT !.t = t2, !.n = lp.n + 1]
    /\ log' = Logged("gate_sleep", reset_trigger)
    /\ UNCHANGED <<cfg, reset_trigger, dev_sw_rst_flow, pc, errs, sess, w, dl, si, rs, cnts, hist>>

\* SxGateEnd failing the call when the trigger was never seen set
SxGateEnd_veto ==
    /\ pc = "sx_gate_poll"
    /\ ~(reset_trigger = 0 /\ lp.t < RESET_TRIGGER_TIMEOUT)
    /\ reset_trigger' = reset_trigger
    /\ log' = Logged("gate_end", lp.t)
    /\ lp' = LIdle
    /\ pc' = IF reset_trigger = 0 THEN "sx_out" ELSE "sx_phase"
    /\ UNCHANGED <<cfg, dev_sw_rst_flow, errs, sess, w, dl, si, rs, cnts, hist>>

\* line 583-593: the loop ends; a trigger still unset is set by the driver
SxGateEnd ==
    /\ pc = "sx_gate_poll"
    /\ ~(reset_trigger = 0 /\ lp.t < RESET_TRIGGER_TIMEOUT)
    /\ reset_trigger' = 1
    /\ log' = IF reset_trigger = 0
              THEN Append(Logged("gate_end", lp.t), <<"self_trigger", lp.t>>)
              ELSE Logged("gate_end", lp.t)
    /\ lp' = LIdle
    /\ pc' = "sx_phase"
    /\ UNCHANGED <<cfg, dev_sw_rst_flow, errs, sess, w, dl, si, rs, cnts, hist>>

\* the administrator writes the module parameter reset_trigger (mode 0644)
\* while the call runs; the call reads it at the gate only, so writes after
\* the gate are left out
WriteResetTrigger ==
    /\ pc \in {"sx_kzalloc", "sx_kmalloc", "sx_save", "sx_gate", "sx_gate_poll"}
    /\ reset_trigger' = 1 - reset_trigger
    /\ UNCHANGED <<cfg, dev_sw_rst_flow, pc, errs, sess, subs, log, cnts, hist>>

\* line 595 and 626-631
SxPhase ==
    /\ pc = "sx_phase"
    /\ IF perform_chip_reset # 0
       THEN pc' = "sx_pre" /\ w' = w
       ELSE IF debug_fw_trace_boot_flow = 0
       THEN pc' = "sx_nd_wait" /\ w' = WStart(0, FALSE)
       ELSE pc' = "sx_restore_chk" /\ w' = w
    /\ UNCHANGED <<cfg, reset_trigger, dev_sw_rst_flow, errs, sess, dl, lp, si, rs, log, cnts, hist>>

\* SxPreReset going on to the reset after a failed dispatch
SxPreReset_ignore ==
    /\ pc = "sx_pre"
    /\ \E r \in DispatchRets :
         /\ err' = r
         /\ log' = Logged("pre", r)
         /\ pc' = "perform"
    /\ is_pre_reset_event' = TRUE
    /\ UNCHANGED <<cfg, reset_trigger, dev_sw_rst_flow, perr, serr, lerr, event_data, hca_header,
                   vendor, subs, cnts, hist>>

\* SxPreReset noting the dispatch only when it succeeded
SxPreReset_flag_on_success ==
    /\ pc = "sx_pre"
    /\ \E r \in DispatchRets :
         /\ err' = r
         /\ log' = Logged("pre", r)
         /\ pc' = IF r # 0 THEN "sx_out" ELSE "perform"
         /\ is_pre_reset_event' = (r = 0)
    /\ UNCHANGED <<cfg, reset_trigger, dev_sw_rst_flow, perr, serr, lerr, event_data, hca_header,
                   vendor, subs, cnts, hist>>

\* line 598-603: the pre-reset dispatch
SxPreReset ==
    /\ pc = "sx_pre"
    /\ \E r \in DispatchRets :
         /\ err' = r
         /\ log' = Logged("pre", r)
         /\ pc' = IF r # 0 THEN "sx_out" ELSE "perform"
    /\ is_pre_reset_event' = TRUE
    /\ UNCHANGED <<cfg, reset_trigger, dev_sw_rst_flow, perr, serr, lerr, event_data, hca_header,
                   vendor, subs, cnts, hist>>

\* SxVendorCheck going on with whatever the readback left in vendor
SxVendorCheck_soft ==
    /\ pc = "sx_chk"
    /\ log' = Logged("vendor", IF vendor = PCI_VENDOR_INVALID THEN 0 ELSE 1)
    /\ err' = err /\ pc' = "sx_restore_chk"
    /\ UNCHANGED <<cfg, reset_trigger, dev_sw_rst_flow, perr, serr, lerr, sess, subs, cnts, hist>>

\* line 621-625
SxVendorCheck ==
    /\ pc = "sx_chk"
    /\ log' = Logged("vendor", IF vendor = PCI_VENDOR_INVALID THEN 0 ELSE 1)
    /\ IF vendor = PCI_VENDOR_INVALID
       THEN err' = -ENODEV /\ pc' = "sx_out"
       ELSE err' = err /\ pc' = "sx_restore_chk"
    /\ UNCHANGED <<cfg, reset_trigger, dev_sw_rst_flow, perr, serr, lerr, sess, subs, cnts, hist>>

\* SxAfterNdWait taking the call on whatever the status read returned
SxAfterNdWait_ignore ==
    /\ pc = "sx_nd_wait" /\ w.ph = "ret"
    /\ w' = WIdle
    /\ err' = 0 /\ pc' = "sx_restore_chk"
    /\ UNCHANGED <<cfg, reset_trigger, dev_sw_rst_flow, perr, serr, lerr, sess, dl, lp, si, rs,
                   log, cnts, hist>>

\* line 626-638: the call without a chip reset; any failure of the one
\* status read is -ENODEV
SxAfterNdWait ==
    /\ pc = "sx_nd_wait" /\ w.ph = "ret"
    /\ w' = WIdle
    /\ IF w.ret # 0
       THEN err' = -ENODEV /\ pc' = "sx_out"
       ELSE err' = 0 /\ pc' = "sx_restore_chk"
    /\ UNCHANGED <<cfg, reset_trigger, dev_sw_rst_flow, perr, serr, lerr, sess, dl, lp, si, rs,
                   log, cnts, hist>>

\* SxRestoreCheck with the restore left out
SxRestoreCheck_skip ==
    /\ pc = "sx_restore_chk"
    /\ pc' = "sx_out" /\ rs' = rs
    /\ UNCHANGED <<cfg, reset_trigger, dev_sw_rst_flow, errs, sess, w, dl, lp, si, log, cnts, hist>>

\* line 640-642: restore runs on SwitchX only; pci_find_capability (line 318)
SxRestoreCheck ==
    /\ pc = "sx_restore_chk"
    /\ IF device = "SWITCHX"
       THEN /\ pc' = "sx_restore"
            /\ \E cap \in PcieCaps :
                 rs' = [ph |-> IF cap # 0 THEN "devctl" ELSE "words", cap |-> cap, i |-> 0]
       ELSE pc' = "sx_out" /\ rs' = rs
    /\ UNCHANGED <<cfg, reset_trigger, dev_sw_rst_flow, errs, sess, w, dl, lp, si, log, cnts, hist>>

\* PostResult letting a failed dispatch call decide the result
PostResult_dispatch(payload, r) == IF r # 0 THEN r ELSE payload

\* line 661: the value sx_reset takes from the post-reset dispatch, whose
\* payload holds payload after the subscribers ran and which returned r
PostResult(payload, r) == payload

\* line 650-652 and 655-665: the kfree calls made on a pointer that is set
HdrFrees == IF hca_header THEN 1 ELSE 0
EvFrees == IF event_data.alloc THEN 1 ELSE 0

\* SxOut returning without the post-reset dispatch
SxOut_nopost ==
    /\ pc = "sx_out"
    /\ hca_header' = FALSE
    /\ event_data' = [event_data EXCEPT !.alloc = FALSE]
    /\ kmem' = [kmem EXCEPT !.hdr_free = kmem.hdr_free + HdrFrees,
                            !.ev_free = kmem.ev_free + EvFrees]
    /\ retval' = err
    /\ pc' = "done"
    /\ UNCHANGED <<cfg, reset_trigger, dev_sw_rst_flow, errs, is_pre_reset_event, vendor, subs,
                   log, cnts, post_in, overridden>>

\* SxOut freeing the snapshot buffer only when the call succeeded
SxOut_keep_header ==
    /\ pc = "sx_out"
    /\ hca_header' = (hca_header /\ err # 0)
    /\ IF event_data.alloc /\ is_pre_reset_event
       THEN /\ pc' = "sx_post" /\ UNCHANGED <<event_data, retval>>
            /\ kmem' = [kmem EXCEPT !.hdr_free = kmem.hdr_free + IF err = 0 THEN HdrFrees ELSE 0]
       ELSE /\ event_data' = [event_data EXCEPT !.alloc = FALSE]
            /\ kmem' = [kmem EXCEPT !.hdr_free = kmem.hdr_free + IF err = 0 THEN HdrFrees ELSE 0,
                                    !.ev_free = kmem.ev_free + EvFrees]
            /\ retval' = err
            /\ pc' = "done"
    /\ UNCHANGED <<cfg, reset_trigger, dev_sw_rst_flow, errs, is_pre_reset_event, vendor, subs,
                   log, cnts, post_in, overridden>>

\* line 649-653 and 663-667: out; the post-reset dispatch follows when the
\* payload exists and the pre-reset dispatch was made
SxOut ==
    /\ pc = "sx_out"
    /\ hca_header' = FALSE
    /\ IF event_data.alloc /\ is_pre_reset_event
       THEN /\ pc' = "sx_post" /\ UNCHANGED <<event_data, retval>>
            /\ kmem' = [kmem EXCEPT !.hdr_free = kmem.hdr_free + HdrFrees]
       ELSE /\ event_data' = [event_data EXCEPT !.alloc = FALSE]
            /\ kmem' = [kmem EXCEPT !.hdr_free = kmem.hdr_free + HdrFrees,
                                    !.ev_free = kmem.ev_free + EvFrees]
            /\ retval' = err
            /\ pc' = "done"
    /\ UNCHANGED <<cfg, reset_trigger, dev_sw_rst_flow, errs, is_pre_reset_event, vendor, subs,
                   log, cnts, post_in, overridden>>

\* line 654-667: the payload takes err, the subscribers may write it, err is
\* read back from it, the payload is freed and err returned
SxPostReset ==
    /\ pc = "sx_post"
    /\ \E r \in DispatchRets, payload \in OverrideVals \cup {err} :
         /\ post_in' = err
         /\ overridden' = (payload # err)
         /\ log' = Logged("post", r)
         /\ err' = PostResult(payload, r)
         /\ retval' = PostResult(payload, r)
         /\ event_data' = [alloc |-> FALSE, post_reset_err |-> payload]
    /\ kmem' = [kmem EXCEPT !.ev_free = kmem.ev_free + 1]
    /\ pc' = "done"
    /\ UNCHANGED <<cfg, reset_trigger, dev_sw_rst_flow, perr, serr, lerr, hca_header,
                   is_pre_reset_event, vendor, subs, cnts>>

Next ==
    \/ SxEntry \/ SxAllocEvent \/ SxAllocHeader \/ SaveStep \/ SaveDone
    \/ SxGate \/ SxGateSleep \/ SxGateEnd \/ WriteResetTrigger \/ SxPhase
    \/ SxPreReset \/ PerformSwitch \/ PerformAfterSdk \/ PerformOut
    \/ WaitMap \/ WaitRead \/ WaitSleep
    \/ SdkAfterWait1 \/ SdkSetFlag \/ SdkMrsr \/ SdkAfterWait0 \/ SdkAfterWait2 \/ SdkOut
    \/ LegEntry \/ LegAfterWait1 \/ LegSetFlag \/ LegAfterDo \/ LegAfterWait2 \/ LegOut
    \/ DlMap \/ DlWrite \/ DlSleep
    \/ LsxEntry \/ LsxAfterDo \/ LsxCheck \/ LsxOut
    \/ VendorRead \/ VendorSleep
    \/ SxVendorCheck \/ SxAfterNdWait \/ SxRestoreCheck \/ RestoreStep \/ RestoreDone
    \/ SxOut \/ SxPostReset

Spec == Init /\ [][Next]_vars

\* the steps of the call itself; WriteResetTrigger is the administrator's
SessionStep ==
    \/ SxEntry \/ SxAllocEvent \/ SxAllocHeader \/ SaveStep \/ SaveDone
    \/ SxGate \/ SxGateSleep \/ SxGateEnd \/ SxPhase
    \/ SxPreReset \/ PerformSwitch \/ PerformAfterSdk \/ PerformOut
    \/ WaitMap \/ WaitRead \/ WaitSleep
    \/ SdkAfterWait1 \/ SdkSetFlag \/ SdkMrsr \/ SdkAfterWait0 \/ SdkAfterWait2 \/ SdkOut
    \/ LegEntry \/ LegAfterWait1 \/ LegSetFlag \/ LegAfterDo \/ LegAfterWait2 \/ LegOut
    \/ DlMap \/ DlWrite \/ DlSleep
    \/ LsxEntry \/ LsxAfterDo \/ LsxCheck \/ LsxOut
    \/ VendorRead \/ VendorSleep
    \/ SxVendorCheck \/ SxAfterNdWait \/ SxRestoreCheck \/ RestoreStep \/ RestoreDone
    \/ SxOut \/ SxPostReset

\* the calling thread keeps running: every call it makes (msleep, the
\* register accesses, the dispatches) returns and its next statement runs
FairSpec == Spec /\ WF_vars(SessionStep)

(***************************************************************************)
(* __get_chip_reset_duration, called on its own for any device id          *)
(***************************************************************************)
DurInit == Init

\* wait_for_reset = __get_chip_reset_duration(dev), as at line 216 and 496;
\* the result is kept in the budget of the frame w
DurCall ==
    /\ pc = "sx_entry"
    /\ w' = [w EXCEPT !.budget = __get_chip_reset_duration(device)]
    /\ pc' = "dur_ret"
    /\ UNCHANGED <<cfg, reset_trigger, dev_sw_rst_flow, errs, sess, dl, lp, si, rs, log, cnts,
                   hist>>

DurSpec == DurInit /\ [][DurCall]_vars

(***************************************************************************)
(* get_system_status, called on its own with no sx_reset call running      *)
(***************************************************************************)
\* words the status register may hold; the upper bytes are arbitrary
GssWords == StatusWords \cup {74565, 16777215}
\* what the caller's u16 may hold before the call
GssOutInit == {0, 43690}

GssInit ==
    /\ device \in Families
    /\ pdev \in {"null", "nopdev", "present"}
    /\ perform_chip_reset = 0
    /\ reset_trigger \in {0, 1}
    /\ debug_fw_trace_boot_flow \in {0, 1}
    /\ dev_sw_rst_flow \in BOOLEAN
    /\ pc = "sx_entry"
    /\ err = 0 /\ perr = 0 /\ serr = 0 /\ lerr = 0
    /\ event_data = [alloc |-> FALSE, post_reset_err |-> 0]
    /\ hca_header = FALSE
    /\ is_pre_reset_event = FALSE
    /\ vendor = PCI_VENDOR_INVALID
    /\ w = WIdle /\ dl = DIdle /\ lp = LIdle /\ si = 0 /\ rs = RIdle
    /\ log = <<>>
    /\ nMap = 0 /\ mapped = 0 /\ nCfgRd = 0 /\ nCfgWr = 0
    /\ post_in = 0 /\ overridden = FALSE /\ retval = 0
    /\ kmem = KNone
    /\ hdr = [i \in 0..63 |-> Unwritten] /\ cfgrd = <<>> /\ cfgwr = <<>>
    /\ it = ItIdle
    /\ \E p \in BOOLEAN, o \in GssOutInit :
         gss = [pc |-> "entry", out_ptr |-> p, out0 |-> o, out |-> o, val |-> 0, ret |-> 0]

\* what get_system_status leaves alone
gssRest == <<args, snap, it, reset_trigger, dev_sw_rst_flow, pc, errs, sess, subs, log, nCfgRd, nCfgWr,
             hist>>

\* line 374-383: the two argument checks. Line 386 reads dev->pdev with no
\* check: with a NULL pdev the read of its resource table faults, or yields
\* whatever address the page at 0 holds
GssEntry ==
    /\ gss.pc = "entry"
    /\ IF pdev = "null" \/ ~gss.out_ptr
       THEN gss' = [gss EXCEPT !.pc = "done", !.ret = -EINVAL]
       ELSE IF pdev = "nopdev"
       THEN \E fault \in BOOLEAN :
              gss' = [gss EXCEPT !.pc = IF fault THEN "oops" ELSE "map"]
       ELSE gss' = [gss EXCEPT !.pc = "map"]
    /\ UNCHANGED <<gssRest, nMap, mapped>>

\* line 385-391: ioremap; NULL is -ENOMEM
GssMap ==
    /\ gss.pc = "map"
    /\ \E ok \in BOOLEAN :
         IF ok
         THEN /\ gss' = [gss EXCEPT !.pc = "read"]
              /\ nMap' = nMap + 1 /\ mapped' = mapped + 1
         ELSE /\ gss' = [gss EXCEPT !.pc = "done", !.ret = -ENOMEM]
              /\ UNCHANGED <<nMap, mapped>>
    /\ UNCHANGED gssRest

\* GssRead storing the status word as it fits the u16
GssRead_word ==
    /\ gss.pc = "read"
    /\ \E val \in GssWords :
         gss' = [gss EXCEPT !.pc = "unmap", !.val = val, !.out = val % 65536]
    /\ UNCHANGED <<gssRest, nMap, mapped>>

\* line 393-394: ioread32be and *system_status = val & SX_SYSTEM_STATUS_REG_MASK
GssRead ==
    /\ gss.pc = "read"
    /\ \E val \in GssWords :
         gss' = [gss EXCEPT !.pc = "unmap", !.val = val,
                            !.out = val % (SX_SYSTEM_STATUS_REG_MASK + 1)]
    /\ UNCHANGED <<gssRest, nMap, mapped>>

\* line 396-399: iounmap and return err, still 0
GssUnmap ==
    /\ gss.pc = "unmap"
    /\ gss' = [gss EXCEPT !.pc = "done"]
    /\ mapped' = mapped - 1
    /\ UNCHANGED <<gssRest, nMap>>

GssNext == GssEntry \/ GssMap \/ GssRead \/ GssUnmap

GssSpec == GssInit /\ [][GssNext]_vars

(***************************************************************************)
(* The bit-field accessors of auto_registers/mlxsw_item.h, called on their *)
(* own: __mlxsw_item_set8/16/32/64 followed by the get of the same width.  *)
(* A value of N bits is a function from 0..N-1 (bit 0 the lowest) to       *)
(* {0, 1}; the buffer is a function from byte offsets to 0..255.           *)
(***************************************************************************)
\* bytes of the buffers the accessors are tried on
BufLen == 32
BITS_PER_LONG == 64
Widths == {8, 16, 32, 64}

Ones(N) == [j \in 0..(N - 1) |-> 1]
Shr(N, v, s) == [j \in 0..(N - 1) |-> IF j + s < N THEN v[j + s] ELSE 0]
Shl(N, v, s) == [j \in 0..(N - 1) |-> IF j >= s THEN v[j - s] ELSE 0]
BitAnd(N, a, b) == [j \in 0..(N - 1) |-> a[j] * b[j]]
BitOr(N, a, b) == [j \in 0..(N - 1) |-> IF a[j] + b[j] > 0 THEN 1 ELSE 0]
BitNot(N, a) == [j \in 0..(N - 1) |-> 1 - a[j]]
\* the conversion of an unsigned long to the N-bit type
Trunc(N, v) == [j \in 0..(N - 1) |-> v[j]]
\* bit p of a byte
Bit(byte, p) == (byte \div (2 ^ p)) % 2

\* line 27-31: ((~0UL) - (1UL << l) + 1) & (~0UL >> (BITS_PER_LONG - 1 - h));
\* for h = -1 the second shift is by the whole width, which C leaves
\* undefined: ub is the bit a build fills the result with
GEN_MASK(h, l, ub) ==
    BitAnd(BITS_PER_LONG,
           [j \in 0..(BITS_PER_LONG - 1) |-> IF j >= l THEN 1 ELSE 0],
           IF BITS_PER_LONG - 1 - h >= BITS_PER_LONG
           THEN [j \in 0..(BITS_PER_LONG - 1) |-> ub]
           ELSE Shr(BITS_PER_LONG, Ones(BITS_PER_LONG), BITS_PER_LONG - 1 - h))

\* the alignment tests of __mlxsw_item_offset that end in BUG()
ItemBug(item, index, typesize) ==
    \/ index # 0 /\ item.step = 0
    \/ item.offset % typesize # 0
    \/ item.step % typesize # 0
    \/ item.in_step_offset % typesize # 0

\* line 46-60: the index of the element of typesize bytes
__mlxsw_item_offset(item, outer_index, index, typesize) ==
    (item.offset + outer_index * typesize + item.step * index + item.in_step_offset)
        \div typesize

\* be_to_cpu without the byte swap of a little-endian CPU
be_to_cpu_native(N, buf, offset) ==
    [j \in 0..(N - 1) |-> Bit(buf[offset * (N \div 8) + (j \div 8)], j % 8)]

\* beN_to_cpu(b[offset]): the element read with its first byte the highest
be_to_cpu(N, buf, offset) ==
    [j \in 0..(N - 1) |->
        Bit(buf[offset * (N \div 8) + ((N \div 8) - 1 - (j \div 8))], j % 8)]

\* the byte made of bits 8k .. 8k+7 of a value
ByteOf(v, k) ==
    v[8 * k] + 2 * v[8 * k + 1] + 4 * v[8 * k + 2] + 8 * v[8 * k + 3]
    + 16 * v[8 * k + 4] + 32 * v[8 * k + 5] + 64 * v[8 * k + 6] + 128 * v[8 * k + 7]

\* b[offset] = cpu_to_beN(tmp)
cpu_to_be(N, buf, offset, tmp) ==
    [i \in DOMAIN buf |->
        IF i \in (offset * (N \div 8))..(offset * (N \div 8) + (N \div 8) - 1)
        THEN ByteOf(tmp, (N \div 8) - 1 - (i - offset * (N \div 8)))
        ELSE buf[i]]

\* line 62-72, 91-101, 120-130, 149-159: __mlxsw_item_getN
__mlxsw_item_get(N, buf, item, outer_index, index, ub) ==
    LET offset == __mlxsw_item_offset(item, outer_index, index, N \div 8)
        tmp == be_to_cpu(N, buf, offset)
    IN  BitAnd(N, Shr(N, tmp, item.shift), Trunc(N, GEN_MASK(item.bits - 1, 0, ub)))

\* line 74-89, 103-118, 132-147, 162-176: __mlxsw_item_setN
__mlxsw_item_set(N, buf, item, outer_index, index, val, ub) ==
    LET offset == __mlxsw_item_offset(item, outer_index, index, N \div 8)
        mask == Trunc(N, Shl(BITS_PER_LONG, GEN_MASK(item.bits - 1, 0, ub), item.shift))
        v == BitAnd(N, Shl(N, val, item.shift), mask)
        tmp == BitOr(N, BitAnd(N, be_to_cpu(N, buf, offset), BitNot(N, mask)), v)
    IN  cpu_to_be(N, buf, offset, tmp)

\* the inputs the accessors are tried on
ItemBufs == {[i \in 0..(BufLen - 1) |-> 0], [i \in 0..(BufLen - 1) |-> 255],
             [i \in 0..(BufLen - 1) |-> (i * 37 + 90) % 256]}
ItemVals(N) == {[j \in 0..(N - 1) |-> 0], Ones(N), [j \in 0..(N - 1) |-> j % 2],
                [j \in 0..(N - 1) |-> IF j \in {0, N - 1} THEN 1 ELSE 0]}
ItemOffsets == {0, 2, 8}
ItemSteps(N) == {0, 3, N \div 8}
ItemInSteps == {0, 1}
ItemShifts(N) == {0, 3, N - 5, N - 1}
ItemSizes(N) == {0, 1, 5, N}
ItemIndexes == {0, 1}

ItemInit ==
    /\ device = "OTHER" /\ pdev = "present"
    /\ perform_chip_reset = 0 /\ reset_trigger = 0 /\ debug_fw_trace_boot_flow = 0
    /\ dev_sw_rst_flow = FALSE
    /\ pc = "sx_entry"
    /\ err = 0 /\ perr = 0 /\ serr = 0 /\ lerr = 0
    /\ event_data = [alloc |-> FALSE, post_reset_err |-> 0]
    /\ hca_header = FALSE
    /\ is_pre_reset_event = FALSE
    /\ vendor = PCI_VENDOR_INVALID
    /\ w = WIdle /\ dl = DIdle /\ lp = LIdle /\ si = 0 /\ rs = RIdle
    /\ log = <<>>
    /\ nMap = 0 /\ mapped = 0 /\ nCfgRd = 0 /\ nCfgWr = 0
    /\ post_in = 0 /\ overridden = FALSE /\ retval = 0
    /\ kmem = KNone
    /\ gss = GIdle
    /\ hdr = [i \in 0..63 |-> Unwritten] /\ cfgrd = <<>> /\ cfgwr = <<>>
    /\ \E N \in Widths :
         \E b \in ItemBufs, v \in ItemVals(N), o \in ItemOffsets, st \in ItemSteps(N),
            ins \in ItemInSteps, sh \in ItemShifts(N), sz \in ItemSizes(N),
            oi \in ItemIndexes, ix \in ItemIndexes :
            /\ sh + sz <= N
            /\ it = [pc |-> "start", N |-> N, buf0 |-> b, buf |-> b, val |-> v,
                     item |-> [offset |-> o, step |-> st, in_step_offset |-> ins,
                               shift |-> sh, bits |-> sz],
                     outer_index |-> oi, index |-> ix, out |-> [j \in 0..(N - 1) |-> 0]]

\* what the accessors leave alone
itRest == <<args, gss, snap, reset_trigger, dev_sw_rst_flow, pc, errs, sess, subs, log, cnts, hist>>

\* __mlxsw_item_setN(buf, item, outer_index, index, val)
ItemSet ==
    /\ it.pc = "start"
    /\ IF ItemBug(it.item, it.index, it.N \div 8)
       THEN it' = [it EXCEPT !.pc = "bug"]
       ELSE \E ub \in {0, 1} :
              it' = [it EXCEPT !.pc = "set",
                               !.buf = __mlxsw_item_set(it.N, it.buf, it.item, it.outer_index,
                                                        it.index, it.val, ub)]
    /\ UNCHANGED itRest

\* __mlxsw_item_getN(buf, item, outer_index, index)
ItemGet ==
    /\ it.pc = "set"
    /\ \E ub \in {0, 1} :
         it' = [it EXCEPT !.pc = "got",
                          !.out = __mlxsw_item_get(it.N, it.buf, it.item, it.outer_index,
                                                   it.index, ub)]
    /\ UNCHANGED itRest

ItemNext == ItemSet \/ ItemGet

ItemSpec == ItemInit /\ [][ItemNext]_vars

TypeOK ==
    /\ dev_sw_rst_flow \in BOOLEAN
    /\ reset_trigger \in {0, 1}
    /\ mapped \in {0, 1}

(***************************************************************************)
(* Properties                                                              *)
(***************************************************************************)
Done == pc = "done"
Destructive == perform_chip_reset # 0 /\ pdev = "present"
Modern == device \in ModernFamilies
\* value of the last k event of the log
Val(k) == log[CHOOSE i \in DOMAIN log :
                  log[i][1] = k /\ \A j \in DOMAIN log : log[j][1] = k => j <= i][2]
\* the register-protocol path ran as in the happy path: pre-reset dispatched
\* with success, the one MRSR write succeeded, the zero-budget read said
\* not ready, the last wait saw ready
HappyPath ==
    /\ Destructive /\ Modern
    /\ HasEv("pre", 0) /\ HasEv("mrsr", 0) /\ HasEv("imm", -ETIME) /\ HasEv("sdk_ret", 0)
HappyOrder ==
    /\ Count("pre") = 1 /\ Count("post") = 1 /\ Before("pre", "post")
    /\ ~Has("legacy") /\ ~Has("lsx")
FlagBetweenNotifies == dev_sw_rst_flow => (Has("pre") /\ ~Has("post"))

\* C1 as stated: on the happy path sx_reset returns success, with the two
\* dispatches once each in order, no legacy executor, and the flag true only
\* between the dispatches.
C1_AsStated ==
    /\ FlagBetweenNotifies
    /\ (Done /\ HappyPath) => (retval = 0 /\ HappyOrder)

\* C1 (amended): on the happy path, when moreover the vendor-id readback of
\* sx_reset sees a valid word and no subscriber writes the post-reset
\* payload, sx_reset returns success; on every happy path the two dispatches
\* happen once each in order with no legacy executor, and the flag is true
\* only between them.
C1_HappyPath ==
    /\ FlagBetweenNotifies
    /\ (Done /\ HappyPath) => HappyOrder
    /\ (Done /\ HappyPath /\ HasEv("vendor", 1) /\ ~overridden) => retval = 0
    /\ (HappyPath /\ Has("perf_ret")) => (Val("perf_ret") = 0 /\ ~Has("legacy"))

C1_Witness ==
    Done /\ HappyPath /\ HasEv("vendor", 1) /\ ~overridden /\ retval = 0 /\ HappyOrder

\* C2: on a modern family the legacy executor runs exactly when
\* sdk_sx_reset failed, and perform_dev_sw_reset then returns the legacy
\* executor's result (so it fails iff that run fails, with its error); on
\* SwitchX only legacy_reset_SwitchX runs and its result is returned.
C2_ExecutorSelection ==
    Has("perf_ret") =>
       /\ Modern =>
            /\ Has("sdk_ret") /\ ~Has("lsx")
            /\ Has("legacy") <=> Val("sdk_ret") # 0
            /\ Has("legacy") => (Has("legacy_ret") /\ Val("perf_ret") = Val("legacy_ret"))
            /\ ~Has("legacy") => Val("perf_ret") = 0
       /\ device = "SWITCHX" =>
            /\ Has("lsx_ret") /\ ~Has("sdk") /\ ~Has("legacy")
            /\ Count("lsx") = 1
            /\ Val("perf_ret") = Val("lsx_ret")

C2_Witness ==
    /\ Modern /\ Has("perf_ret") /\ Has("legacy_ret")
    /\ Val("sdk_ret") = -EFAULT /\ Val("legacy_ret") = -ETIME /\ Val("perf_ret") = -ETIME

\* the zero-budget read after a successful MRSR write reported ready
ImmReady == HasEv("mrsr", 0) /\ HasEv("imm", 0)
\* no status wait starts after the zero-budget read's verdict
NoWaitAfterImm ==
    \A a, b \in DOMAIN log : (log[a][1] = "imm" /\ log[b][1] = "wait") => b < a

\* C3 as stated: after an immediate ready, sx_reset returns -EFAULT, and the
\* session makes no further status wait and issues no further trigger.
C3_AsStated ==
    (Done /\ ImmReady /\ ~overridden) =>
       (retval = -EFAULT /\ NoWaitAfterImm /\ ~Has("lwrite") /\ Count("mrsr") = 1)

\* C3 (amended): after an immediate ready, sdk_sx_reset returns -EFAULT
\* without a further status wait and without a second MRSR write; that
\* failure makes perform_dev_sw_reset run the legacy fallback, so waits and
\* a legacy trigger may follow, and the result of sx_reset is the
\* fallback's.
C3_UnexpectedReady ==
    ImmReady =>
       /\ Count("mrsr") = 1
       /\ pc = "sdk_out" => (serr = -EFAULT /\ NoWaitAfterImm)
       /\ Has("sdk_ret") => Val("sdk_ret") = -EFAULT
       /\ \A a, b \in DOMAIN log :
            (log[a][1] = "imm" /\ log[b][1] \in {"wait", "lwrite"} /\ a < b) =>
               \E c \in DOMAIN log : log[c][1] = "legacy" /\ a < c /\ c < b
       /\ Has("perf_ret") => (Has("legacy_ret") /\ Val("perf_ret") = Val("legacy_ret"))

C3_Witness ==
    Done /\ ImmReady /\ Has("lwrite") /\ ~NoWaitAfterImm /\ ~overridden /\ retval = 0

\* the MRSR transport failed on a modern family
TransportFailed == Destructive /\ Modern /\ Has("mrsr") /\ Val("mrsr") # 0

\* C4 as stated: after a transport failure the legacy executor runs, and if
\* the vendor-id readback succeeds sx_reset returns success.
C4_AsStated ==
    /\ (TransportFailed /\ Has("perf_ret")) => Has("legacy")
    /\ (Done /\ TransportFailed /\ HasEv("vendor", 1)) => retval = 0

\* C4 (amended): after a transport failure the legacy executor runs, and if
\* the vendor-id readback succeeds and no subscriber writes the post-reset
\* payload, sx_reset returns success.
C4_TransportFallback ==
    /\ (TransportFailed /\ Has("perf_ret")) => Has("legacy")
    /\ (TransportFailed /\ Has("vendor")) => HasEv("legacy_ret", 0)
    /\ (Done /\ TransportFailed /\ HasEv("vendor", 1) /\ ~overridden) => retval = 0

C4_Witness ==
    /\ Done /\ TransportFailed /\ Has("lwrite") /\ HasEv("vendor", 1)
    /\ ~overridden /\ retval = 0

\* C5: when sx_reset returns, dev_sw_rst_flow is false (it is false at
\* entry), whatever the family, the path and the result.
C5_FlagClearedAtReturn == Done => ~dev_sw_rst_flow

C5_Witness == Done /\ Has("mrsr") /\ Has("lwrite") /\ retval # 0

\* a reset trigger was issued and the readiness verdict for it is not in yet
InSdkWindow ==
    (pc = "sdk_wait0" \/ pc = "sdk_wait2") /\ w.ph # "ret"
InLegacyWindow ==
    \/ pc = "leg_do" /\ (dl.ph = "sleep" \/ (dl.ph = "ret" /\ dl.ret = 0))
    \/ pc = "leg_wait2" /\ w.ph # "ret"
InSwitchXWindow ==
    \/ pc = "lsx_do" /\ (dl.ph = "sleep" \/ (dl.ph = "ret" /\ dl.ret = 0))
    \/ pc = "lsx_vendor"
InWindow == InSdkWindow \/ InLegacyWindow \/ InSwitchXWindow
\* the executor has set the flag and is about to issue the trigger, or holds
\* the verdict (or the trigger's failure) and is about to clear the flag
AtWindowEdge ==
    \/ pc \in {"sdk_mrsr", "sdk_out", "leg_out"}
    \/ pc = "leg_do" /\ (dl.ph \in {"map", "write"} \/ (dl.ph = "ret" /\ dl.ret # 0))
    \/ pc \in {"sdk_wait0", "sdk_wait2", "leg_wait2"} /\ w.ph = "ret"

\* C6 as stated: on every family the flag is true from the trigger to the
\* readiness verdict, and false at every other time (the steps that set and
\* clear it around the window apart).
C6_AsStated ==
    /\ InWindow => dev_sw_rst_flow
    /\ dev_sw_rst_flow => (InWindow \/ AtWindowEdge)

\* C7 as stated: every destructive call on a present device dispatches the
\* post-reset notification before it returns.
C7_AsStated == (Done /\ Destructive) => Has("post")

\* C7 (amended): every destructive call on a present device that dispatched
\* the pre-reset notification dispatches the post-reset notification once
\* before it returns; a call returns without either only when the payload
\* or snapshot allocation (-ENOMEM) or the SwitchX snapshot save failed.
C7_PostAfterPre ==
    (Done /\ Destructive) =>
       /\ Has("pre") => (Count("post") = 1 /\ Before("pre", "post"))
       /\ ~Has("pre") =>
            /\ ~Has("post")
            /\ retval = -ENOMEM \/ (device = "SWITCHX" /\ HasEv("save", -ENODEV))

C7_Witness ==
    Done /\ Destructive /\ HasEv("pre", 0) /\ HasEv("legacy_ret", -ENOMEM) /\ Count("post") = 1

\* the error the steps before the post-reset dispatch ended with
PrecedingErr ==
    IF ~HasEv("pre", 0) THEN Val("pre")
    ELSE IF Val("perf_ret") # 0 THEN Val("perf_ret")
    ELSE IF HasEv("vendor", 0) THEN -ENODEV
    ELSE IF Has("restore") THEN Val("restore")
    ELSE 0

\* C8 as stated: after a fallback the post-reset payload still carries the
\* final error of the register-protocol phase.
C8_AsStated ==
    (Done /\ Has("post") /\ Has("legacy_ret")) => post_in = Val("sdk_ret")

\* C8 (amended): the post-reset payload carries the error sx_reset holds
\* after the steps before the dispatch; after a fallback that is the legacy
\* executor's result (then the readback's), not the register-protocol error.
C8_PayloadErr ==
    (Done /\ Has("post")) =>
       /\ post_in = PrecedingErr
       /\ (Has("legacy_ret") /\ Val("legacy_ret") # 0) => post_in = Val("legacy_ret")
       /\ (HasEv("legacy_ret", 0) /\ HasEv("vendor", 1)) => post_in = 0

C8_Witness ==
    /\ Done /\ Has("post") /\ HasEv("sdk_ret", -EFAULT) /\ HasEv("legacy_ret", 0)
    /\ HasEv("vendor", 1) /\ post_in = 0

\* C9: once the post-reset notification was dispatched, sx_reset returns
\* the error the payload holds after the dispatch: the preceding error when
\* no subscriber wrote it, whatever the dispatch call returned.
C9_LastWord ==
    (Done /\ Has("post")) =>
       /\ retval = event_data.post_reset_err
       /\ ~overridden => retval = post_in

C9_Witness ==
    Done /\ Has("post") /\ Val("post") # 0 /\ overridden /\ post_in # 0 /\ retval = 0

\* the pre-reset dispatch failed
PreFailed == Has("pre") /\ Val("pre") # 0
NoExecutor ==
    /\ ~Has("sdk") /\ ~Has("legacy") /\ ~Has("lsx")
    /\ ~Has("mrsr") /\ ~Has("lwrite")

\* C10 as stated: after a failed pre-reset dispatch the call fails with its
\* error, no executor or trigger runs, and the session makes no
\* configuration-space access and maps no register window.
C10_AsStated ==
    PreFailed =>
       /\ NoExecutor
       /\ nCfgRd = 0 /\ nCfgWr = 0 /\ nMap = 0
       /\ (Done /\ ~overridden) => retval = Val("pre")

\* C10 (amended): after a failed pre-reset dispatch the call fails with its
\* error, no executor or trigger runs, no configuration-space write and no
\* mapping is made; the only configuration-space reads of the session are
\* the 62 of the SwitchX snapshot save, made before the dispatch.
C10_PreFailureAborts ==
    PreFailed =>
       /\ NoExecutor
       /\ nCfgWr = 0 /\ nMap = 0
       /\ nCfgRd = IF device = "SWITCHX" THEN 62 ELSE 0
       /\ ~Has("restore")
       /\ (Done /\ ~overridden) => retval = Val("pre")
       /\ pc \in {"sx_out", "sx_post", "done"}

C10_Witness ==
    Done /\ PreFailed /\ device = "SWITCHX" /\ nCfgRd = 62 /\ ~overridden /\ retval = Val("pre")

\* the gate was left: the call is at or past the test of perform_chip_reset
PastGate == Has("gate") /\ pc \notin {"sx_gate", "sx_gate_poll"}
\* elapsed time of the gate loop after n sleeps
GateClock(n) == n * GATE_POLL_MSECS

\* C11: a trigger found set at the gate is passed with no sleep; otherwise
\* the gate sleeps 100 ms at a time, only while the trigger reads unset and
\* for no more than 10 s in all, leaves without setting anything once the
\* trigger reads set, and after 10 s sets reset_trigger itself; it leaves
\* err at 0 and a destructive call goes on to the pre-reset dispatch.
C11_TriggerGate ==
    /\ HasEv("gate", 1) => (~Has("gate_sleep") /\ ~Has("gate_end") /\ ~Has("self_trigger"))
    /\ \A i \in DOMAIN log : log[i][1] = "gate_sleep" => log[i][2] = 0
    /\ pc = "sx_gate_poll" =>
         /\ HasEv("gate", 0) /\ lp.t <= RESET_TRIGGER_TIMEOUT
         /\ lp.t = GateClock(lp.n) \/ lp.t = RESET_TRIGGER_TIMEOUT
         /\ Count("gate_sleep") = lp.n
    /\ Has("self_trigger") => Val("gate_end") = RESET_TRIGGER_TIMEOUT
    /\ (PastGate /\ HasEv("gate", 0)) => Has("gate_end")
    /\ Has("gate_end") =>
         /\ Val("gate_end") <= RESET_TRIGGER_TIMEOUT
         /\ Val("gate_end") < RESET_TRIGGER_TIMEOUT =>
              (~Has("self_trigger") /\ Val("gate_end") = GateClock(Count("gate_sleep")))
    /\ pc = "sx_phase" => (reset_trigger = 1 /\ err = 0)
    /\ (Done /\ Has("gate") /\ perform_chip_reset # 0) => Has("pre")

C11_Witness ==
    /\ Done /\ perform_chip_reset # 0 /\ Modern /\ HasEv("gate", 0) /\ Has("self_trigger")
    /\ Count("gate_sleep") = MaxPolls + 1 /\ Has("mrsr") /\ retval = 0

\* a call that asks for no chip reset, on a present device
NonDestructive == perform_chip_reset = 0 /\ pdev = "present"

\* C12 as stated: a call with perform_chip_reset = 0 never waits on
\* reset_trigger and never sets it.
C12_AsStated ==
    NonDestructive => (~Has("gate_sleep") /\ ~Has("self_trigger"))

\* C12 (amended): the gate comes before the test of perform_chip_reset: a
\* call with perform_chip_reset = 0 whose allocations and snapshot save
\* succeeded passes it like a destructive one, sleeping while the trigger
\* reads unset and setting reset_trigger itself after 10 s.
C12_GateForEveryCall ==
    NonDestructive =>
       /\ pc \in {"sx_phase", "sx_nd_wait", "sx_restore_chk", "sx_restore"} => Has("gate")
       /\ (PastGate /\ HasEv("gate", 0)) =>
            /\ Has("gate_end")
            /\ Val("gate_end") > 0 => Has("gate_sleep")
            /\ Has("self_trigger") => Val("gate_end") = RESET_TRIGGER_TIMEOUT
            /\ pc = "sx_phase" => reset_trigger = 1
       /\ (Done /\ retval = 0) => Has("gate")
       /\ (Done /\ ~Has("gate")) => (retval = -ENOMEM \/ HasEv("save", -ENODEV))

C12_Witness ==
    /\ Done /\ NonDestructive /\ Has("self_trigger") /\ Has("gate_sleep")
    /\ reset_trigger = 1 /\ retval = 0

\* C13 as stated: a call with perform_chip_reset = 0 makes exactly one
\* zero-budget status read and succeeds exactly when it shows the ready
\* value, or, with debug_fw_trace_boot_flow set, makes no read and succeeds;
\* it runs no executor and dispatches no notification.
C13_AsStated ==
    (Done /\ NonDestructive) =>
       /\ NoExecutor /\ ~Has("pre") /\ ~Has("post")
       /\ IF debug_fw_trace_boot_flow = 0
          THEN Count("sread") = 1 /\ (retval = 0 <=> HasEv("sread", 1))
          ELSE Count("sread") = 0 /\ retval = 0

\* C13 (amended): a call with perform_chip_reset = 0 runs no executor and
\* dispatches no notification; it makes at most one status read, with a zero
\* budget, and none when debug_fw_trace_boot_flow is set, when an allocation
\* or the SwitchX snapshot save failed before the gate, or when the status
\* register could not be mapped. Off SwitchX it succeeds exactly when the
\* gate was reached and the read showed the ready value or was skipped by
\* the debug flag; on SwitchX success also needs the restore that follows
\* to succeed.
C13_ReadinessCheck ==
    (Done /\ NonDestructive) =>
       /\ NoExecutor /\ ~Has("pre") /\ ~Has("post")
       /\ Count("wait") <= 1 /\ Count("sread") <= 1
       /\ Has("wait") => (Val("wait") = 0 /\ Has("gate") /\ debug_fw_trace_boot_flow = 0)
       /\ (Has("gate") /\ debug_fw_trace_boot_flow = 0) =>
             (Count("wait") = 1 /\ (Count("sread") = 1 <=> Val("wret") # -ENOMEM))
       /\ Has("sread") => Has("wait")
       /\ ~Has("gate") => (retval = -ENOMEM \/ (device = "SWITCHX" /\ HasEv("save", -ENODEV)))
       /\ retval \in {0, -ENODEV, -ENOMEM}
       /\ LET checked == Has("gate") /\ (debug_fw_trace_boot_flow # 0 \/ HasEv("sread", 1)) IN
          IF device = "SWITCHX"
          THEN retval = 0 <=> (checked /\ HasEv("restore", 0))
          ELSE retval = 0 <=> checked

C13_Witness ==
    /\ Done /\ NonDestructive /\ device = "SWITCHX" /\ debug_fw_trace_boot_flow = 0
    /\ HasEv("sread", 1) /\ HasEv("restore", -ENODEV) /\ retval = -ENODEV

\* C14 as stated: a call with perform_chip_reset = 0 writes nothing to the
\* device on any family: no configuration-space write, no reset trigger, no
\* MRSR command, and dev_sw_rst_flow stays as it was.
C14_AsStated ==
    NonDestructive =>
       (nCfgWr = 0 /\ ~Has("lwrite") /\ ~Has("mrsr") /\ ~dev_sw_rst_flow)

\* a configuration-space write of __restore_headers_data failed
RestoreWriteFailed ==
    \E k \in {"devctl", "linkctl", "words", "cmd"} : HasEv(k, -ENODEV)

\* C15: on SwitchX, when the snapshot save and the reset succeeded and a
\* write of the restore fails, the last one (PCI_COMMAND) included, the
\* post-reset payload carries -ENODEV and sx_reset returns -ENODEV unless a
\* subscriber changed the payload.
C15_RestoreFailure ==
    (Destructive /\ device = "SWITCHX" /\ RestoreWriteFailed) =>
       /\ HasEv("save", 0) /\ HasEv("perf_ret", 0)
       /\ Done =>
            /\ HasEv("restore", -ENODEV) /\ Has("post") /\ post_in = -ENODEV
            /\ ~overridden => retval = -ENODEV

C15_Witness ==
    /\ Done /\ Destructive /\ device = "SWITCHX" /\ HasEv("lwrite", 0)
    /\ Count("words") = 15 /\ HasEv("cmd", -ENODEV) /\ ~overridden /\ retval = -ENODEV

\* C16 as stated: a call that saved the snapshot runs the restore before it
\* returns, on every path.
C16_AsStated ==
    (Done /\ HasEv("save", 0)) => Has("restore")

\* the vendor-id readback of sx_reset (after the executor returned) was valid
SxVendorOk ==
    \E i, j \in DOMAIN log : i < j /\ log[i][1] = "perf_ret" /\ log[j] = <<"vendor", 1>>

\* C16 (amended): the restore runs once and only at the end of the success
\* path: after a successful save, a destructive call restores exactly when
\* the pre-reset dispatch, the executor and the vendor-id readback all
\* succeeded, and a non-destructive call exactly when its status check
\* passed or was skipped; on every other path the snapshot buffer is freed
\* with no restore.
C16_RestoreOnSuccessOnly ==
    /\ Count("restore") <= 1
    /\ Has("restore") => HasEv("save", 0)
    /\ (Done /\ HasEv("save", 0)) =>
          /\ ~hca_header
          /\ IF perform_chip_reset # 0
             THEN Has("restore") <=> (HasEv("pre", 0) /\ HasEv("perf_ret", 0) /\ SxVendorOk)
             ELSE Has("restore") <=> (debug_fw_trace_boot_flow # 0 \/ HasEv("sread", 1))

C16_Witness ==
    /\ Done /\ device = "SWITCHX" /\ Destructive /\ HasEv("save", 0) /\ HasEv("lwrite", 0)
    /\ HasEv("perf_ret", 0) /\ ~SxVendorOk /\ ~Has("restore") /\ nCfgWr = 0

\* C17: one call issues the MRSR command at most once and writes the legacy
\* trigger at most once; each executor runs at most once, the legacy one
\* only after sdk_sx_reset failed and sdk_sx_reset never after it; a SwitchX
\* call never issues the MRSR command.
C17_NoRetry ==
    /\ Count("mrsr") <= 1 /\ Count("lwrite") <= 1
    /\ Count("sdk") <= 1 /\ Count("legacy") <= 1 /\ Count("lsx") <= 1
    /\ Count("sdk_ret") <= 1 /\ Count("perf_ret") <= 1
    /\ Has("legacy") => (Has("sdk_ret") /\ Val("sdk_ret") # 0 /\ Before("sdk_ret", "legacy"))
    /\ \A i, j \in DOMAIN log : (log[i][1] \in {"legacy", "lsx"} /\ i < j) => log[j][1] # "sdk"
    /\ Has("lsx") => (~Has("sdk") /\ ~Has("legacy"))
    /\ device = "SWITCHX" => (~Has("mrsr") /\ ~Has("sdk"))

C17_Witness ==
    /\ Done /\ Count("mrsr") = 1 /\ Val("mrsr") = 0 /\ Has("legacy") /\ Count("lwrite") = 1

\* C18: every sx_reset call returns: while the calling thread keeps running
\* the call reaches its return statement, whatever the trigger, the status
\* register and the vendor id read and whenever the administrator writes
\* the trigger.
C18_Terminates == <>Done

\* C18: a call that returned after every wait ran to its deadline
C18_Witness ==
    /\ Done /\ Destructive /\ Modern /\ Has("self_trigger")
    /\ HasEv("wret", -ETIME) /\ HasEv("vendor", 0) /\ Has("grace")

\* the low byte of a 32-bit word
LowByte(x) == x - 256 * (x \div 256)

\* C19: get_system_status returns -EINVAL for a NULL device or a NULL output
\* and -ENOMEM when ioremap fails, with the output as it was and nothing
\* left mapped; otherwise it stores the low byte of the word read, returns 0
\* and has unmapped the window; no step of it changes dev_sw_rst_flow or
\* reset_trigger.
C19_GetSystemStatus ==
    /\ [](gss.pc = "done" =>
            /\ mapped = 0
            /\ IF pdev = "null" \/ ~gss.out_ptr
               THEN gss.ret = -EINVAL /\ gss.out = gss.out0 /\ nMap = 0
               ELSE IF nMap = 0
               THEN gss.ret = -ENOMEM /\ gss.out = gss.out0
               ELSE gss.ret = 0 /\ nMap = 1 /\ gss.out = LowByte(gss.val))
    /\ [][/\ dev_sw_rst_flow' = dev_sw_rst_flow
          /\ reset_trigger' = reset_trigger]_vars

C19_Witness ==
    /\ gss.pc = "done" /\ pdev = "present" /\ gss.out_ptr /\ nMap = 1 /\ mapped = 0
    /\ gss.val = 74565 /\ gss.out = 69 /\ gss.ret = 0 /\ dev_sw_rst_flow /\ reset_trigger = 0

\* C20: on an absent device (dev NULL or dev->pdev NULL) sx_reset goes from
\* its first test to its return with -ENODEV: no gate, no dispatch, no
\* mapping and no configuration-space access, and no step changes
\* reset_trigger or dev_sw_rst_flow.
C20_AbsentDevice ==
    /\ [](pdev # "present" =>
            /\ pc \in {"sx_entry", "sx_out", "done"}
            /\ log = <<>>
            /\ nMap = 0 /\ mapped = 0 /\ nCfgRd = 0 /\ nCfgWr = 0
            /\ ~event_data.alloc /\ ~hca_header /\ ~is_pre_reset_event
            /\ pc # "sx_entry" => err = -ENODEV
            /\ Done => retval = -ENODEV)
    /\ [][pdev # "present" =>
            (reset_trigger' = reset_trigger /\ dev_sw_rst_flow' = dev_sw_rst_flow)]_vars

C20_Witness ==
    /\ Done /\ pdev = "nopdev" /\ perform_chip_reset # 0 /\ reset_trigger = 0
    /\ retval = -ENODEV /\ log = <<>>

\* a destructive call on a device id outside the switch of perform_dev_sw_reset
Unsupported == Destructive /\ device \notin ModernFamilies \cup {"SWITCHX"}

\* C21 as stated: a destructive call on an unsupported device id returns
\* -ENODEV with no executor, no trigger, no status poll and the flag never
\* set, and dispatches the pre-reset and the post-reset notification once
\* each.
C21_AsStated ==
    Unsupported =>
       /\ NoExecutor /\ ~Has("wait") /\ nMap = 0 /\ ~dev_sw_rst_flow
       /\ Done => (retval = -ENODEV /\ Count("pre") = 1 /\ Count("post") = 1)

\* C21 (amended): a destructive call on an unsupported device id runs no
\* executor, issues no trigger, polls no status and never sets the flag;
\* when the payload allocation and the pre-reset dispatch succeed,
\* perform_dev_sw_reset returns -ENODEV, both notifications are dispatched
\* once and the call returns -ENODEV unless a subscriber changed the
\* payload; a failed allocation returns -ENOMEM with no notification and a
\* failed pre-reset dispatch returns its error.
C21_UnsupportedFamily ==
    Unsupported =>
       /\ NoExecutor /\ ~Has("wait") /\ nMap = 0 /\ nCfgRd = 0 /\ nCfgWr = 0 /\ ~dev_sw_rst_flow
       /\ Count("pre") <= 1 /\ Count("post") <= 1
       /\ Has("perf_ret") => (HasEv("pre", 0) /\ Val("perf_ret") = -ENODEV)
       /\ Done =>
            /\ Count("post") = Count("pre")
            /\ HasEv("pre", 0) => (Has("perf_ret") /\ post_in = -ENODEV)
            /\ (HasEv("pre", 0) /\ ~overridden) => retval = -ENODEV
            /\ (PreFailed /\ ~overridden) => retval = Val("pre")
            /\ ~Has("pre") => (retval = -ENOMEM /\ ~Has("gate"))

C21_Witness ==
    /\ Done /\ Unsupported /\ HasEv("pre", 0) /\ HasEv("perf_ret", -ENODEV)
    /\ Count("post") = 1 /\ ~overridden /\ retval = -ENODEV

\* a call of __wait_for_system_ready is about to return
WaitReturns == pc \in WaitSites /\ w.ph = "ret"
\* the status word last read holds the sentinel in its low byte
SawSentinel == LowByte(w.val) = SX_SYSTEM_STATUS_ENABLED

\* C22 as stated: with budget 0 the mapped wait makes one read and no sleep,
\* and returns 0 when the low byte of the word is the sentinel and -ETIME
\* otherwise.
C22_AsStated ==
    (WaitReturns /\ w.budget = 0 /\ w.ret # -ENOMEM) =>
       /\ w.rd = 1 /\ w.sl = 0
       /\ w.ret = IF SawSentinel THEN 0 ELSE -ETIME

\* C22 (amended): with budget 0 the wait reads the status word once, unless
\* the mapping failed (-ENOMEM, no read); it returns 0 with no sleep when
\* the low byte is the sentinel, and otherwise sleeps once for 1 ms before
\* the loop test ends the loop and returns -ETIME with no second read.
C22_ZeroBudget ==
    (pc \in WaitSites /\ w.budget = 0) =>
       /\ w.rd <= 1 /\ w.sl <= 1 /\ w.n = 0
       /\ w.ph = "sleep" => (w.rd = 1 /\ w.sl = 0 /\ ~SawSentinel)
       /\ w.ph = "ret" =>
            /\ w.ret \in {0, -ETIME, -ENOMEM}
            /\ w.ret = -ENOMEM => (w.rd = 0 /\ w.sl = 0)
            /\ w.ret = 0 => (w.rd = 1 /\ w.sl = 0 /\ w.t = 0 /\ SawSentinel)
            /\ w.ret = -ETIME => (w.rd = 1 /\ w.sl = 1 /\ w.t = 1 /\ ~SawSentinel)

C22_Witness ==
    WaitReturns /\ w.budget = 0 /\ w.ret = -ETIME /\ w.rd = 1 /\ w.sl = 1 /\ w.val = 256

\* C23 as stated: for every budget the wait returns 0 with an elapsed time
\* within the budget when the sentinel was read, and -ETIME in every other
\* case; the elapsed time is written on success only.
C23_AsStated ==
    WaitReturns =>
       /\ w.ret # 0 => (w.ret = -ETIME /\ w.tw = Unwritten)
       /\ w.ret = 0 => (SawSentinel /\ (w.ptr => (w.tw >= 0 /\ w.tw <= w.budget)))

\* C23 (amended): for every budget the wait returns 0 exactly when a read
\* made before the deadline showed the sentinel in the low byte, whatever
\* the upper 24 bits, and then reports the clock of that read, which is not
\* above the budget; it returns -ETIME when every read failed to show it
\* and the deadline passed, and -ENOMEM with no read when the mapping
\* failed; time_waited is written on success only, and only when the caller
\* passed a pointer.
C23_WaitResult ==
    pc \in WaitSites =>
       /\ w.ph = "sleep" => (w.rd >= 1 /\ ~SawSentinel /\ w.tw = Unwritten)
       /\ w.ph = "read" => (w.t = 0 \/ w.t < w.budget)
       /\ w.ph = "ret" =>
            /\ w.ret \in {0, -ETIME, -ENOMEM}
            /\ w.ret = 0 =>
                 /\ w.rd >= 1 /\ SawSentinel
                 /\ w.t = 0 \/ w.t < w.budget
                 /\ w.tw = IF w.ptr THEN w.t ELSE Unwritten
                 /\ w.ptr => w.tw <= w.budget
            /\ w.ret = -ETIME =>
                 (w.rd >= 1 /\ ~SawSentinel /\ w.t >= w.budget /\ w.tw = Unwritten)
            /\ w.ret = -ENOMEM => (w.rd = 0 /\ w.sl = 0 /\ w.tw = Unwritten)

C23_Witness ==
    /\ WaitReturns /\ w.budget > 0 /\ w.ret = 0 /\ w.val = 350 /\ w.rd = MaxPolls + 1
    /\ w.tw = MaxPolls /\ w.ptr

\* the log entry right before the last k event
Prev(k) == log[(CHOOSE i \in DOMAIN log :
                  log[i][1] = k /\ \A j \in DOMAIN log : log[j][1] = k => j <= i) - 1]
\* the call of __wait_for_system_ready that returned last failed to map
MapFailedLast == Has("wret") /\ Val("wret") = -ENOMEM

Special == {22, 23}
\* every write of the restore but the one of PCI_COMMAND comes before it
CommandLast ==
    \A i, j \in DOMAIN cfgwr :
       (cfgwr[i].off = PCI_COMMAND /\ j # i) => (j < i /\ cfgwr[j].off # PCI_COMMAND)

PassSlots == {cfgwr[k].slot : k \in {j \in DOMAIN cfgwr : cfgwr[j].ph = "words"}}
\* the restore wrote PCI_COMMAND
CommandWritten == \E k \in DOMAIN cfgwr : cfgwr[k].ph = "cmd"

\* C26 as stated: the word the 16-word pass skips and the restore writes
\* last is the one of index 4, at byte offset 16.
C26_AsStated ==
    \A k \in DOMAIN cfgwr :
       /\ cfgwr[k].ph = "words" => cfgwr[k].slot # 4
       /\ cfgwr[k].ph = "cmd" => (cfgwr[k].slot = 4 /\ cfgwr[k].off = 16)

\* C26 (amended): the 16-word pass writes the words 0..15 in rising order,
\* each at its own offset with the value the save read there, but the word
\* at byte offset PCI_COMMAND = 4, which is index 1; that word is written
\* last, from slot 1; the pass writes no word of index 16..63.
C26_RestoreWords ==
    /\ \A k \in DOMAIN cfgwr :
         LET wr == cfgwr[k] IN
         /\ wr.ph = "words" =>
              /\ wr.slot \in 0..15 /\ wr.slot # PCI_COMMAND \div 4
              /\ wr.off = 4 * wr.slot /\ wr.val = hdr[wr.slot] /\ wr.val = CfgWord(wr.slot)
         /\ wr.ph = "cmd" =>
              /\ wr.slot = 1 /\ wr.off = PCI_COMMAND /\ wr.val = CfgWord(1)
              /\ k = Len(cfgwr)
    /\ \A i, j \in DOMAIN cfgwr :
         (cfgwr[i].ph = "words" /\ cfgwr[j].ph = "words" /\ i < j) => cfgwr[i].slot < cfgwr[j].slot
    /\ CommandWritten => PassSlots = (0..15) \ {1}

C26_Witness ==
    /\ CommandWritten /\ cfgwr[Len(cfgwr)].ok /\ Cardinality(PassSlots) = 15
    /\ 4 \in PassSlots /\ cfgwr[Len(cfgwr)].off = 4 /\ HasEv("restore", 0)

\* the index of the k-th word the save reads (k = 1..62)
SaveIdx(k) == IF k <= 22 THEN k - 1 ELSE k + 1

\* C27: the save reads the words 0..63 but 22 and 23, in rising order, 62
\* reads when all succeed; a failed read is the last read of the save, and
\* sx_reset then returns -ENODEV with no gate, no notification, no executor,
\* no trigger and no configuration-space write.
C27_SaveAborts ==
    /\ Len(cfgrd) <= 62
    /\ \A k \in DOMAIN cfgrd : cfgrd[k] = SaveIdx(k)
    /\ pc = "sx_save" => \A k \in DOMAIN cfgrd : hdr[cfgrd[k]] = CfgWord(cfgrd[k])
    /\ HasEv("save", 0) =>
          /\ Len(cfgrd) = 62
          /\ \A i \in 0..63 : hdr[i] = IF i \in Special THEN 0 ELSE CfgWord(i)
    /\ HasEv("save", -ENODEV) =>
          /\ Len(cfgrd) >= 1 /\ nCfgRd = Len(cfgrd)
          /\ hdr[cfgrd[Len(cfgrd)]] = 0
          /\ \A k \in 1..(Len(cfgrd) - 1) : hdr[cfgrd[k]] = CfgWord(cfgrd[k])
          /\ NoExecutor /\ ~Has("gate") /\ ~Has("pre") /\ ~Has("post") /\ ~Has("restore")
          /\ nCfgWr = 0 /\ cfgwr = <<>> /\ nMap = 0
          /\ pc \in {"sx_out", "done"} /\ err = -ENODEV
          /\ Done => retval = -ENODEV

C27_Witness ==
    /\ Done /\ Destructive /\ HasEv("save", -ENODEV) /\ Len(cfgrd) = 30 /\ cfgrd[30] = 31
    /\ retval = -ENODEV

\* C28 as stated: the snapshot is read only in a call that asks for the chip
\* reset, after its pre-reset dispatch succeeded.
C28_AsStated ==
    cfgrd # <<>> => (perform_chip_reset # 0 /\ HasEv("pre", 0))

\* C28 (amended): on SwitchX the snapshot is taken at the start of every
\* call, with or without chip reset, right after the two allocations: the
\* save is over before the trigger gate, the pre-reset dispatch and the
\* trigger write, and no call reaches the gate without a complete save.
C28_SaveFirst ==
    /\ (cfgrd # <<>> \/ Has("save")) => device = "SWITCHX"
    /\ Count("save") <= 1
    /\ Has("save") => log[1][1] = "save"
    /\ (pc = "sx_save" \/ cfgrd # <<>>) => (Has("save") \/ log = <<>>)
    /\ (device = "SWITCHX" /\ Has("gate")) => (HasEv("save", 0) /\ Len(cfgrd) = 62)
    /\ Before("save", "gate") /\ Before("save", "pre") /\ Before("save", "lwrite")

C28_Witness ==
    /\ Done /\ device = "SWITCHX" /\ NonDestructive /\ HasEv("save", 0)
    /\ log[1] = <<"save", 0>> /\ Len(cfgrd) = 62 /\ ~Has("pre") /\ retval = 0

\* C29: a failed write of the restore is its last write: PCI_COMMAND is not
\* written after an earlier failure, the restore returns -ENODEV, and no
\* offset is written a second time, so what was written stays.
C29_RestoreAborts ==
    /\ Len(cfgwr) = nCfgWr
    /\ \A k \in DOMAIN cfgwr : ~cfgwr[k].ok => k = Len(cfgwr)
    /\ \A i, j \in DOMAIN cfgwr : cfgwr[i].off = cfgwr[j].off => i = j
    /\ CommandWritten => \A k \in 1..(Len(cfgwr) - 1) : cfgwr[k].ok
    /\ (cfgwr # <<>> /\ ~cfgwr[Len(cfgwr)].ok) =>
          /\ RestoreWriteFailed
          /\ pc \in {"sx_restore", "sx_out"} => err = -ENODEV
          /\ pc = "sx_restore" => rs.ph = "ret"
          /\ Has("restore") => Val("restore") = -ENODEV
    /\ HasEv("restore", -ENODEV) => (cfgwr # <<>> /\ ~cfgwr[Len(cfgwr)].ok)

C29_Witness ==
    /\ Done /\ Len(cfgwr) = 5 /\ cfgwr[1].ok /\ cfgwr[4].ok /\ ~cfgwr[5].ok
    /\ ~CommandWritten /\ HasEv("restore", -ENODEV)

\* C30: __get_chip_reset_duration gives 15000 ms for the three Quantum ids,
\* 900000 ms for Spectrum 2, 3 and 4 and 5000 ms for every other id
\* (Spectrum, SwitchIB, SwitchIB2, SwitchX, an unsupported id), and the call
\* changes nothing but its result.
C30_DurationTable ==
    /\ [](pc = "dur_ret" =>
            w.budget = IF device \in {"QUANTUM", "QUANTUM2", "QUANTUM3"} THEN 15000
                       ELSE IF device \in {"SPECTRUM2", "SPECTRUM3", "SPECTRUM4"} THEN 900000
                       ELSE 5000)
    /\ [][/\ UNCHANGED <<cfg, reset_trigger, dev_sw_rst_flow, errs, sess, dl, lp, si, rs, log,
                        cnts, hist>>
          /\ w' = [w EXCEPT !.budget = w'.budget]]_vars

C30_Witness ==
    pc = "dur_ret" /\ device = "SPECTRUM3" /\ w.budget = 900000

\* the wait events logged after the legacy fallback started
LegacyWaits == {i \in DOMAIN log : log[i][1] = "wait" /\ \E j \in 1..(i - 1) : log[j][1] = "legacy"}

\* C31: both waits of legacy_reset, before and after the trigger, run with
\* twice the duration of the device family, the two waits of sdk_sx_reset
\* with the duration itself (its read between them has a budget of 0), and
\* the doubled value is below 2^32.
C31_LegacyDoubles ==
    /\ (pc \in {"leg_wait1", "leg_wait2"}) =>
          /\ w.budget = 2 * __get_chip_reset_duration(device)
          /\ w.budget \div 65536 < 65536
          /\ w.budget > __get_chip_reset_duration(device)
    /\ (pc \in {"sdk_wait1", "sdk_wait2"}) => w.budget = __get_chip_reset_duration(device)
    /\ (pc = "sdk_wait0") => w.budget = 0
    /\ \A i \in DOMAIN log :
         log[i][1] = "wait" =>
            IF i \in LegacyWaits
            THEN log[i][2] = 2 * __get_chip_reset_duration(device)
            ELSE log[i][2] \in {0, __get_chip_reset_duration(device)}
    /\ Cardinality(LegacyWaits) <= 2

C31_Witness ==
    /\ Done /\ device = "SPECTRUM3" /\ Cardinality(LegacyWaits) = 2
    /\ HasEv("wait", 900000) /\ HasEv("wait", 1800000) /\ HasEv("legacy_ret", 0)

\* the last event of the log is k
LastIs(k) == log # <<>> /\ log[Len(log)][1] = k

\* C32: __do_legacy_reset maps the reset register, writes it once, unmaps
\* it and sleeps the grace period before it returns 0: the grace period
\* follows the write with nothing between them, no register window is mapped
\* and no configuration or status access is made while it lasts; a failed
\* mapping returns -ENOMEM with no write, no sleep and nothing else done.
C32_DirectWrite ==
    /\ [](/\ Count("lwrite") <= 1 /\ Count("grace") <= 1
          /\ \A i \in DOMAIN log :
               /\ log[i][1] = "grace" => (i > 1 /\ log[i - 1][1] = "lwrite")
               /\ log[i][1] = "lwrite" =>
                     IF i < Len(log) THEN log[i + 1][1] = "grace"
                     ELSE pc \in DlSites /\ dl.ph = "sleep"
          /\ (pc \in DlSites) =>
               /\ dl.ph \in {"map", "write", "sleep", "ret"}
               /\ dl.ph = "map" => (mapped = 0 /\ ~Has("lwrite"))
               /\ dl.ph = "write" => (mapped = 1 /\ ~Has("lwrite"))
               /\ dl.ph = "sleep" => (mapped = 0 /\ LastIs("lwrite") /\ ~Has("grace"))
               /\ dl.ph = "ret" =>
                     /\ mapped = 0
                     /\ dl.ret \in {0, -ENOMEM}
                     /\ dl.ret = 0 => LastIs("grace")
                     /\ dl.ret = -ENOMEM => (~Has("lwrite") /\ ~Has("grace"))
          /\ (HasEv("lsx_ret", -ENOMEM) \/ (Done /\ ~Has("wait") /\ retval = -ENOMEM)) =>
               (~Has("lwrite") /\ ~Has("grace")))
    /\ [][/\ (pc \in DlSites /\ dl.ph = "sleep") =>
               (dl'.ph = "ret" /\ dl'.ret = 0 /\ pc' = pc
                /\ UNCHANGED <<cnts, w, lp, snap, vendor>>)
          /\ (pc \in DlSites /\ dl.ph = "map" /\ dl'.ph = "ret") =>
               (dl'.ret = -ENOMEM /\ UNCHANGED <<log, cnts, w, lp, snap, vendor>>)]_vars

C32_Witness ==
    /\ pc = "leg_do" /\ dl.ph = "ret" /\ dl.ret = 0 /\ LastIs("grace")
    /\ Count("lwrite") = 1 /\ nMap = 2 /\ mapped = 0

\* the triggers issued: the MRSR command and the write of the reset register
Triggers == {i \in DOMAIN log : log[i][1] \in {"mrsr", "lwrite"}}
\* a valid vendor id was found by the readback of sx_reset, after every trigger
ValidAfterTriggers ==
    \E j \in DOMAIN log :
      /\ log[j] = <<"vendor", 1>>
      /\ \A i \in Triggers : i < j
      /\ \E p \in 1..(j - 1) : log[p] = <<"perf_ret", 0>>
\* the vendor-id reads made by the readback loops so far
VendorReads == nCfgRd - Len(cfgrd)

\* C33: a vendor-id readback starts only after an executor that returned 0;
\* it reads at least once, sleeps at least 1 ms after each read that failed
\* or gave all-ones, and ends at the first valid read or when a sleep ends
\* 2000 ms or more after the start. A readback that ends without a valid
\* word is -ENODEV, and a call with chip reset passes its reset phase only
\* with a valid vendor id read by sx_reset after every trigger.
C33_Readback ==
    /\ [](/\ (pc \in VendorSites) =>
               /\ lp.ph \in {"read", "sleep"} /\ lp.t < SX_RESET_TIMEOUT_JIFFIES
               /\ vendor = PCI_VENDOR_INVALID
               /\ Triggers # {} /\ perform_chip_reset # 0
               /\ pc = "sx_vendor" => LastIs("perf_ret") /\ err = 0
               /\ pc = "lsx_vendor" => LastIs("grace") /\ lerr = 0
               /\ lp.ph = "sleep" => VendorReads >= 1
          /\ (pc \in {"sx_chk", "lsx_chk"}) =>
               /\ lp.ph = "idle" /\ VendorReads >= 1
               /\ IF vendor # PCI_VENDOR_INVALID
                  THEN lp.t < SX_RESET_TIMEOUT_JIFFIES
                  ELSE lp.t >= SX_RESET_TIMEOUT_JIFFIES /\ lp.n >= 1
          /\ HasEv("vendor", 0) =>
               /\ Val("vendor") = 0
               /\ pc \in {"lsx_out", "perf_out"} => lerr = -ENODEV
               /\ pc = "sx_out" => err = -ENODEV
               /\ pc \notin {"sx_restore_chk", "sx_restore"} /\ ~Has("restore")
               /\ Done => (post_in = -ENODEV /\ (~overridden => retval = -ENODEV))
          /\ (perform_chip_reset # 0 /\ (pc \in {"sx_restore_chk", "sx_restore"} \/ Has("restore")))
               => ValidAfterTriggers
          /\ (Done /\ Destructive /\ retval = 0 /\ ~overridden) => ValidAfterTriggers)
    /\ [][/\ (pc \in VendorSites /\ lp.ph = "sleep") =>
               (lp'.t >= lp.t + 1 /\ lp'.n = lp.n + 1 /\ UNCHANGED <<cnts, vendor, log>>)
          /\ (pc \in VendorSites /\ lp.ph = "read") =>
               (nCfgRd' = nCfgRd + 1 /\ lp'.t = lp.t /\ lp'.n = lp.n
                /\ lp'.ph = IF vendor' # PCI_VENDOR_INVALID THEN "idle" ELSE "sleep")
          /\ (pc \in VendorSites /\ pc' \notin VendorSites) =>
               pc' = VendorNext(pc)]_vars

C33_Witness ==
    /\ pc = "sx_chk" /\ device = "SWITCHX" /\ vendor = PCI_VENDOR_INVALID
    /\ lp.t = SX_RESET_TIMEOUT_JIFFIES /\ lp.n = 2 /\ HasEv("vendor", 1)

\* C34: at most one register window is mapped at a time, only inside
\* __wait_for_system_ready (from its ioremap to its return) and inside
\* __do_legacy_reset (from its ioremap to the write), never across the grace
\* sleep and never after the function returned; the snapshot buffer and the
\* event payload are allocated once at most, and what was allocated is
\* freed exactly once before sx_reset returns, whatever it returns.
C34_NoLeak ==
    /\ mapped \in {0, 1}
    /\ mapped = 1 <=> \/ pc \in WaitSites /\ w.ph \in {"read", "sleep"}
                      \/ pc \in DlSites /\ dl.ph = "write"
    /\ (pc \in WaitSites /\ w.ph = "ret") => mapped = 0
    /\ (pc \in DlSites /\ dl.ph \in {"sleep", "ret"}) => mapped = 0
    /\ kmem.ev_alloc \in {0, 1} /\ kmem.hdr_alloc \in {0, 1}
    /\ kmem.hdr_alloc = 1 => (device = "SWITCHX" /\ kmem.ev_alloc = 1)
    /\ hca_header <=> (kmem.hdr_alloc = 1 /\ kmem.hdr_free = 0)
    /\ event_data.alloc <=> (kmem.ev_alloc = 1 /\ kmem.ev_free = 0)
    /\ kmem.hdr_free <= kmem.hdr_alloc /\ kmem.ev_free <= kmem.ev_alloc
    /\ (kmem.hdr_free = 1 \/ kmem.ev_free = 1) => pc \in {"sx_post", "done"}
    /\ pc = "sx_post" => (kmem.hdr_free = kmem.hdr_alloc /\ kmem.ev_free = 0 /\ event_data.alloc)
    /\ Done =>
          /\ mapped = 0 /\ ~hca_header /\ ~event_data.alloc
          /\ kmem.hdr_free = kmem.hdr_alloc /\ kmem.ev_free = kmem.ev_alloc
          /\ pdev = "present" => (kmem.ev_alloc = 1 \/ retval = -ENOMEM)

C34_Witness ==
    /\ Done /\ device = "SWITCHX" /\ Has("grace") /\ HasEv("vendor", 0) /\ retval = -ENODEV
    /\ kmem = [ev_alloc |-> 1, ev_free |-> 1, hdr_alloc |-> 1, hdr_free |-> 1]
    /\ nMap = 1 /\ mapped = 0

\* no wait of the call saw the ready status
NeverReady == ~HasEv("wret", 0)

\* C35 as stated: on a modern family no trigger is issued before the status
\* read ready, and a call with chip reset whose two paths both waited and
\* never read ready issues no trigger and fails.
C35_AsStated ==
    /\ (Modern /\ NeverReady) => Triggers = {}
    /\ (Done /\ Modern /\ Destructive /\ NeverReady /\ Has("legacy")) => retval # 0

\* C35 (amended): on a modern family each trigger (the MRSR command, the
\* write of the reset register) comes right after a wait of its own path
\* that returned ready, run with the path's budget; a call with chip reset
\* that never reads ready issues no trigger, and sx_reset fails unless a
\* post-reset subscriber overwrites the error in the payload.
C35_ReadyBeforeTrigger ==
    Modern =>
       /\ \A i \in Triggers :
            /\ i > 2 /\ log[i - 1] = <<"wret", 0>>
            /\ log[i - 2] = <<"wait", IF log[i][1] = "mrsr"
                                      THEN __get_chip_reset_duration(device)
                                      ELSE 2 * __get_chip_reset_duration(device)>>
       /\ (pc \in {"sdk_setflag", "sdk_mrsr", "leg_setflag"} \/ (pc = "leg_do" /\ ~Has("lwrite")))
             => (LastIs("wret") /\ Val("wret") = 0)
       /\ NeverReady =>
            /\ Triggers = {} /\ ~dev_sw_rst_flow
            /\ pc \notin {"sdk_setflag", "sdk_mrsr", "leg_setflag", "leg_do"}
            /\ (Done /\ Destructive) =>
                  /\ ~overridden => retval # 0
                  /\ HasEv("pre", 0) => (Has("legacy") /\ post_in \in {-ETIME, -ENOMEM})

C35_Witness ==
    /\ Done /\ Modern /\ Destructive /\ NeverReady /\ Has("legacy") /\ Triggers = {}
    /\ Count("wait") = 2 /\ HasEv("wret", -ETIME) /\ retval = -ETIME /\ ~overridden

\* the events of the executors and of the restore
ExecEvents == {"sdk", "mrsr", "imm", "sdk_ret", "legacy", "lwrite", "grace", "legacy_ret",
               "lsx", "lsx_ret", "perf_ret", "vendor", "wait", "wret", "sread",
               "devctl", "linkctl", "words", "cmd", "restore"}

\* C36: a call dispatches the pre-reset event once at most, only when a chip
\* reset is asked for, and the post-reset event exactly when it dispatched
\* the pre-reset event, whether that dispatch succeeded or failed: the
\* post-reset dispatch is the last step before the return, after the
\* pre-reset dispatch and after every executor and restore step.
C36_Pairing ==
    /\ Count("pre") <= 1 /\ Count("post") <= Count("pre")
    /\ (Has("pre") <=> is_pre_reset_event)
    /\ Has("pre") => (perform_chip_reset # 0 /\ (event_data.alloc \/ Has("post")))
    /\ Has("post") => (Done /\ LastIs("post"))
    /\ Done => Count("post") = Count("pre")
    /\ Done => (Has("pre") <=> (Destructive /\ kmem.ev_alloc = 1 /\ ~HasEv("save", -ENODEV)
                                /\ (device = "SWITCHX" => kmem.hdr_alloc = 1)))
    /\ \A i, j \in DOMAIN log :
         /\ (log[i][1] = "pre" /\ log[j][1] = "post") => i < j
         /\ (log[i][1] = "post" /\ log[j][1] \in ExecEvents) => j < i
         /\ (log[i][1] = "pre" /\ log[j][1] \in ExecEvents) => i < j
    /\ (Done /\ HasEv("pre", -16)) =>
          (Has("post") /\ post_in = -16 /\ \A j \in DOMAIN log : log[j][1] \notin ExecEvents)

C36_Witness ==
    /\ Done /\ HasEv("pre", -16) /\ Count("post") = 1 /\ Count("pre") = 1 /\ post_in = -16
    /\ retval = -16

\* C37 as stated: the device-control and link-control values the restore
\* writes are taken from buffer slots inside the 64-word buffer other than 22
\* and 23, and are the low halves of the words the save read from the device
\* at the offsets they are written to.
C37_AsStated ==
    \A k \in DOMAIN cfgwr :
       cfgwr[k].ph \in {"devctl", "linkctl"} =>
          /\ cfgwr[k].slot \in (0..63) \ Special
          /\ cfgwr[k].val = CfgWord(cfgwr[k].off \div 4) % 65536

\* the byte offset of the element an accessor call addresses
ItemWordAt == it.item.offset + it.outer_index * (it.N \div 8) + it.item.step * it.index
              + it.item.in_step_offset
\* the item passes the tests of __mlxsw_item_offset
ItemAligned ==
    /\ it.item.offset % (it.N \div 8) = 0 /\ it.item.step % (it.N \div 8) = 0
    /\ it.item.in_step_offset % (it.N \div 8) = 0
    /\ it.index # 0 => it.item.step # 0
\* the value cut to the size of the field
ItemField == [j \in 0..(it.N - 1) |-> IF j < it.item.bits THEN it.val[j] ELSE 0]
\* the buffer after the set holds the value in bits shift .. shift+bits-1 of
\* the addressed big-endian element and its old contents everywhere else
ItemFrame ==
    \A i \in 0..(BufLen - 1), p \in 0..7 :
       LET j == (ItemWordAt + (it.N \div 8) - 1 - i) * 8 + p IN
       IF /\ i \in ItemWordAt..(ItemWordAt + (it.N \div 8) - 1)
          /\ j \in it.item.shift..(it.item.shift + it.item.bits - 1)
       THEN Bit(it.buf[i], p) = it.val[j - it.item.shift]
       ELSE Bit(it.buf[i], p) = Bit(it.buf0[i], p)

\* C38 as stated: for an item whose offset is a multiple of the access width
\* (and whose shift + size fits), the set returns, the get that follows gives
\* the value cut to the size of the field, and the set changed no bit
\* outside the field.
C38_AsStated ==
    (it.pc # "idle" /\ it.item.offset % (it.N \div 8) = 0) =>
       /\ it.pc # "bug"
       /\ it.pc \in {"set", "got"} => ItemFrame
       /\ it.pc = "got" => it.out = ItemField

\* C38 (amended): the accessors stop in BUG() unless offset, step and
\* in_step_offset are all multiples of the access width and a non-zero index
\* comes with a non-zero step; for an item that passes, with a size of at
\* least one bit and shift + size within the width, the get after the set
\* gives the value cut to the size, and the set changed only the bits of the
\* field in the addressed big-endian element.
C38_RoundTrip ==
    it.pc # "idle" =>
       /\ it.pc = "bug" <=> (it.pc # "start" /\ ~ItemAligned)
       /\ it.pc = "bug" => it.buf = it.buf0
       /\ (it.pc \in {"set", "got"} /\ it.item.bits >= 1) => ItemFrame
       /\ (it.pc = "got" /\ it.item.bits >= 1) => it.out = ItemField

C38_Witness ==
    /\ it.pc = "got" /\ it.N = 32 /\ it.item.bits = 5 /\ it.item.shift = 27
    /\ it.index = 1 /\ it.item.step = 4 /\ it.item.offset = 8 /\ it.outer_index = 1
    /\ it.val = Ones(32) /\ it.buf0[16] = 0 /\ it.buf[16] = 248 /\ it.buf[17] = 0
    /\ it.out = ItemField

====
